---- MODULE Spec2Model ----
(***************************************************************************)
(* The evaluation engine of the EdTech service: the unified                *)
(* evaluate_student route, the older smart-evaluator route of the same     *)
(* name, and the mock-test route evaluate_mock, together with the          *)
(* embedding provider and the document store they call; the answer        *)
(* normalizer extract_answer_letter called alone; the lookup routes        *)
(* list_evaluations and download_report.                                   *)
(*                                                                         *)
(* Conventions.  A Python str is a sequence of one-character strings.      *)
(* Marks are integers; every awarded score and total is held in hundredths *)
(* of a mark (round(x, 2) keeps two decimals), a percentage in hundredths  *)
(* of a percent, a recorded similarity in thousandths (round(sim, 3)).     *)
(* An optional value (Python None) is a record with a presence flag, or    *)
(* the empty sequence where the value is a number.                         *)
(***************************************************************************)
EXTENDS Integers, Sequences, FiniteSets, TLC

(***************************************************************************)
(* Bounds of the model.                                                    *)
(***************************************************************************)
MaxQuestions == 2
MaxAnswerLen == 3
\* Requests served at the same time.
NumRuns == 2
NumCalls == 2

(***************************************************************************)
(* Python strings.                                                         *)
(***************************************************************************)
Whitespace == {" "}
UpperCase == {"A", "B", "C", "D", "M", "Q", "S"}
LowerCase == {"a", "b", "c", "d", "e", "h", "i", "k", "l", "m", "n", "o",
              "p", "q", "r", "s", "t", "u", "w", "x", "y"}

\* Two characters outside ASCII, held by their code points: the capital I
\* with dot above, a letter, and the combining dot above, a mark.
CapitalIDot == "U+0130"
CombiningDot == "U+0307"

\* [a-zA-Z] of the regular expression.
ascii_letter(c) == c \in UpperCase \cup LowerCase

\* str.isalpha of one character: every letter of Unicode.
isalpha(c) == ascii_letter(c) \/ c = CapitalIDot

lower_char(c) ==
    CASE c = "A" -> "a"
      [] c = "B" -> "b"
      [] c = "C" -> "c"
      [] c = "D" -> "d"
      [] c = "M" -> "m"
      [] c = "Q" -> "q"
      [] c = "S" -> "s"
      [] OTHER -> c

\* str.lower of one character: the capital I with dot above lowers to two
\* characters, "i" and the combining dot above.
lower_of(c) == IF c = CapitalIDot THEN <<"i", CombiningDot>> ELSE <<lower_char(c)>>

RECURSIVE str_lower(_)
str_lower(s) == IF s = <<>> THEN <<>> ELSE lower_of(Head(s)) \o str_lower(Tail(s))

RECURSIVE str_lstrip(_)
str_lstrip(s) ==
    IF s # <<>> /\ Head(s) \in Whitespace THEN str_lstrip(Tail(s)) ELSE s

RECURSIVE str_rstrip(_)
str_rstrip(s) ==
    IF s # <<>> /\ s[Len(s)] \in Whitespace
    THEN str_rstrip(SubSeq(s, 1, Len(s) - 1))
    ELSE s

str_strip(s) == str_rstrip(str_lstrip(s))

\* set(s.split()): the set of maximal runs of non-whitespace characters.
RECURSIVE split_acc(_, _, _)
split_acc(s, cur, acc) ==
    IF s = <<>>
    THEN IF cur = <<>> THEN acc ELSE acc \cup {cur}
    ELSE IF Head(s) \in Whitespace
         THEN split_acc(Tail(s), <<>>, IF cur = <<>> THEN acc ELSE acc \cup {cur})
         ELSE split_acc(Tail(s), Append(cur, Head(s)), acc)

word_set(s) == split_acc(s, <<>>, {})

\* The texts of the model, and the characters of each; "" is the empty str.
Texts ==
    {"A",
     "a",
     " ",
     "x",
     "a) option text",
     "deadlock circular wait",
     "deadlock occurs when processes wait circularly",
     "Deadlock occurs when processes wait",
     "MCQ",
     "mcq",
     "choice",
     "multiple",
     "multiple choice",
     "mixed",
     "Short",
     "short",
     "subjective"}

chars(text) ==
    CASE text = "A" -> <<"A">>
      [] text = "a" -> <<"a">>
      [] text = " " -> <<" ">>
      [] text = "x" -> <<"x">>
      [] text = "a) option text" -> <<"a", ")", " ", "o", "p", "t", "i", "o", "n", " ", "t", "e", "x", "t">>
      [] text = "deadlock circular wait" -> <<"d", "e", "a", "d", "l", "o", "c", "k", " ", "c", "i", "r", "c", "u", "l", "a", "r", " ", "w", "a", "i", "t">>
      [] text = "deadlock occurs when processes wait circularly" -> <<"d", "e", "a", "d", "l", "o", "c", "k", " ", "o", "c", "c", "u", "r", "s", " ", "w", "h", "e", "n", " ", "p", "r", "o", "c", "e", "s", "s", "e", "s", " ", "w", "a", "i", "t", " ", "c", "i", "r", "c", "u", "l", "a", "r", "l", "y">>
      [] text = "Deadlock occurs when processes wait" -> <<"D", "e", "a", "d", "l", "o", "c", "k", " ", "o", "c", "c", "u", "r", "s", " ", "w", "h", "e", "n", " ", "p", "r", "o", "c", "e", "s", "s", "e", "s", " ", "w", "a", "i", "t">>
      [] text = "MCQ" -> <<"M", "C", "Q">>
      [] text = "mcq" -> <<"m", "c", "q">>
      [] text = "choice" -> <<"c", "h", "o", "i", "c", "e">>
      [] text = "multiple" -> <<"m", "u", "l", "t", "i", "p", "l", "e">>
      [] text = "multiple choice" -> <<"m", "u", "l", "t", "i", "p", "l", "e", " ", "c", "h", "o", "i", "c", "e">>
      [] text = "mixed" -> <<"m", "i", "x", "e", "d">>
      [] text = "Short" -> <<"S", "h", "o", "r", "t">>
      [] text = "short" -> <<"s", "h", "o", "r", "t">>
      [] text = "subjective" -> <<"s", "u", "b", "j", "e", "c", "t", "i", "v", "e">>
      [] OTHER -> <<>>

\* The text with the given characters.
text_of(cs) == CHOOSE t \in Texts \cup {""} : chars(t) = cs

\* "not s" for a str.
falsy(text) == text = ""

(***************************************************************************)
(* Python numbers.                                                         *)
(***************************************************************************)
Abs(x) == IF x < 0 THEN 0 - x ELSE x

\* The integer nearest to num/den (den > 0), a tie going to the even one.
round_half_even(num, den) ==
    LET fl == num \div den
        twice == 2 * (num - fl * den)
    IN  IF twice < den THEN fl
        ELSE IF twice > den THEN fl + 1
        ELSE IF fl % 2 = 0 THEN fl ELSE fl + 1

\* round(num/den, ndigits), in units of 10^-ndigits.
py_round(num, den, ndigits) ==
    LET scale == IF ndigits = 2 THEN 100 ELSE IF ndigits = 3 THEN 1000 ELSE 1
    IN  IF den > 0
        THEN round_half_even(num * scale, den)
        ELSE round_half_even((0 - num) * scale, 0 - den)

RECURSIVE SeqSum(_)
SeqSum(s) == IF s = <<>> THEN 0 ELSE Head(s) + SeqSum(Tail(s))

(***************************************************************************)
(* Embedding vectors and cosine similarity.                                *)
(***************************************************************************)
Dot(a, b) == SeqSum([i \in 1..Len(a) |-> a[i] * b[i]])

\* A similarity is held exactly, as the number dot / sqrt(den2).
ZeroSim == [dot |-> 0, den2 |-> 1]

\* dot / sqrt(den2) >= p / q, for q > 0.
sim_ge(sim, p, q) ==
    IF p <= 0
    THEN sim.dot >= 0 \/ sim.dot * sim.dot * q * q <= p * p * sim.den2
    ELSE sim.dot > 0 /\ sim.dot * sim.dot * q * q >= p * p * sim.den2

\* round(sim, 3), in thousandths: the largest k with sim >= (2k - 1)/2000,
\* found by bisection between lo (which satisfies it) and hi (which does not).
RECURSIVE round3_between(_, _, _)
round3_between(sim, lo, hi) ==
    IF hi - lo <= 1 THEN lo
    ELSE LET mid == (lo + hi) \div 2
         IN  IF sim_ge(sim, 2 * mid - 1, 2000)
             THEN round3_between(sim, mid, hi)
             ELSE round3_between(sim, lo, mid)

sim_round3(sim) == round3_between(sim, 0 - 1000, 1001)

\* np.dot raises ValueError on vectors of different shapes, after the
\* zero-magnitude guard has been passed.
cosine_similarity(vec1, vec2) ==
    LET denom2 == Dot(vec1, vec1) * Dot(vec2, vec2)
    IN  IF denom2 = 0 THEN [raised |-> FALSE, sim |-> ZeroSim]
        ELSE IF Len(vec1) # Len(vec2) THEN [raised |-> TRUE, sim |-> ZeroSim]
        ELSE [raised |-> FALSE, sim |-> [dot |-> Dot(vec1, vec2), den2 |-> denom2]]

NoneEmb == [some |-> FALSE, vec |-> <<>>]
SomeEmb(v) == [some |-> TRUE, vec |-> v]

\* Vectors of norm 20 whose cosine with VecRef is 0.85, 0.70, 0.55 and 0.50,
\* and a vector of another dimension (a malformed response item).
VecRef == <<1, 0, 0, 0, 0>>
Vec85 == <<17, 10, 3, 1, 1>>
Vec70 == <<14, 14, 2, 2, 0>>
Vec55 == <<11, 15, 7, 2, 1>>
Vec50 == <<10, 17, 3, 1, 1>>
VecOdd == <<1, 0>>
StudentVecs == {Vec85, Vec70, Vec55, Vec50, VecOdd}
ReferenceVecs == {VecRef}

\* What client.embeddings.create can do with n texts (student and reference
\* text interleaved): raise (timeout, network, API error), answer with one
\* vector per text, or answer with one item fewer.
FullResponses(n) ==
    {[i \in 1..n |-> IF i % 2 = 1 THEN sv[(i + 1) \div 2] ELSE rv[i \div 2]] :
        sv \in [1..(n \div 2) -> StudentVecs],
        rv \in [1..(n \div 2) -> ReferenceVecs]}

\* No call has been made.
NoCall == [kind |-> "none", data |-> <<>>]

ProviderOutcomes(n) ==
    {[kind |-> "raise", data |-> <<>>]}
    \cup {[kind |-> "data", data |-> d] : d \in FullResponses(n)}
    \cup {[kind |-> "data", data |-> SubSeq(d, 1, n - 1)] : d \in FullResponses(n)}

get_embeddings_batch(texts, outcome) ==
    IF outcome.kind = "raise"
    THEN [i \in 1..Len(texts) |-> NoneEmb]
    ELSE [i \in 1..Len(outcome.data) |-> SomeEmb(outcome.data[i])]

(***************************************************************************)
(* Papers, answers and requests.                                           *)
(***************************************************************************)
\* Questions a paper is built from: an MCQ with reference "A", an MCQ whose
\* reference answer is missing, a subjective question, and an MCQ whose
\* marks are negative (a malformed paper the route does not reject).
QuestionPalette ==
    { [type |-> "MCQ", marks |-> 1, answer |-> "A"],
      [type |-> "mcq", marks |-> 2, answer |-> ""],
      [type |-> "Short", marks |-> 10,
       answer |-> "deadlock occurs when processes wait circularly"],
      [type |-> "choice", marks |-> 0 - 1, answer |-> "a"] }

SeqsUpTo(S, n) == UNION {[1..k -> S] : k \in 0..n}

NoPaper == [present |-> FALSE, questions |-> <<>>]
Paper(qs) == [present |-> TRUE, questions |-> qs]
InlinePapers == {Paper(qs) : qs \in SeqsUpTo(QuestionPalette, MaxQuestions)}

NoPaperId == "None"
PaperIds == {"P1", "P2", "P3", "P4", "PX"}

\* The question_papers collection: a paper under the id "P1"; under "P2" a
\* paper whose one question has no reference answer; under "P3" a paper
\* whose second question has the string "five" for its marks (a key
\* marks_text stands for marks that are no number); under "P4" a paper that
\* declares total_marks, less than the marks of its question.
StoredPapers == [id \in {"P1", "P2", "P3", "P4"} |->
    CASE id = "P1" ->
            Paper(<< [type |-> "MCQ", marks |-> 1, answer |-> "A"],
                     [type |-> "Short", marks |-> 10,
                      answer |-> "deadlock occurs when processes wait circularly"] >>)
      [] id = "P2" ->
            Paper(<< [type |-> "Short", marks |-> 5, answer |-> ""] >>)
      [] id = "P3" ->
            Paper(<< [type |-> "MCQ", marks |-> 1, answer |-> "A"],
                     [type |-> "MCQ", marks |-> 0, answer |-> "A",
                      marks_text |-> "five"] >>)
      [] OTHER ->
            [present |-> TRUE, total_marks |-> 5,
             questions |-> << [type |-> "MCQ", marks |-> 10, answer |-> "A"] >>]]

Answer(i, text) == [q_index |-> i, student_answer |-> text]

\* The answers lists submitted: none, one answer to question 1 (an option
\* with its text, the bare letter, blanks), answers to two questions, and
\* two answers to the same question, an answer with the q_index 0, an
\* answer that repeats most of the reference text.
AnswerLists ==
    { <<>>,
      <<Answer(1, "a) option text")>>,
      <<Answer(1, "a")>>,
      <<Answer(1, " ")>>,
      <<Answer(1, "a"), Answer(2, "deadlock circular wait")>>,
      <<Answer(1, "deadlock circular wait"), Answer(2, "deadlock circular wait")>>,
      <<Answer(1, " "), Answer(1, "deadlock circular wait")>>,
      <<Answer(1, "a"), Answer(0, "x")>>,
      <<Answer(1, "Deadlock occurs when processes wait")>> }

Requests ==
    {[paper |-> p, paper_id |-> NoPaperId, answers |-> a] :
        p \in InlinePapers, a \in AnswerLists}
    \cup {[paper |-> NoPaper, paper_id |-> id, answers |-> a] :
        id \in PaperIds \cup {NoPaperId}, a \in AnswerLists}

(***************************************************************************)
(* evaluate_student of unified_service.py: the pure parts.                 *)
(***************************************************************************)
\* build_answer_map keeping the first entry of a q_index.
RECURSIVE build_answer_map_first_wins(_, _)
build_answer_map_first_wins(answers, idx) ==
    IF answers = <<>> THEN ""
    ELSE LET a == answers[1]
         IN  IF a.q_index > 0 /\ a.q_index = idx
             THEN a.student_answer
             ELSE build_answer_map_first_wins(Tail(answers), idx)

\* answer_map: the last entry with a q_index wins; a missing index gives "".
RECURSIVE build_answer_map(_, _)
build_answer_map(answers, idx) ==
    IF answers = <<>> THEN ""
    ELSE LET a == answers[Len(answers)]
         IN  IF a.q_index > 0 /\ a.q_index = idx
             THEN a.student_answer
             ELSE build_answer_map(SubSeq(answers, 1, Len(answers) - 1), idx)

is_mcq_type(type) ==
    str_lower(chars(type)) \in {chars("mcq"), chars("multiple"), chars("choice")}

\* The MCQ branch: (score, feedback) with score 0 or 1.
mcq_score(student_ans, correct_ans) ==
    IF falsy(student_ans) \/ falsy(correct_ans)
    THEN [score |-> 0, feedback |-> "Answer missing."]
    ELSE LET s == str_lower(str_strip(chars(student_ans)))
             c == str_lower(str_strip(chars(correct_ans)))
         IN  IF s = c THEN [score |-> 1, feedback |-> "Correct"]
                      ELSE [score |-> 0, feedback |-> "Incorrect"]

NoSimilarity == <<>>

new_detail(idx, q, student_ans) ==
    [q_index |-> idx, type |-> q.type, marks |-> q.marks,
     student_answer |-> student_ans, correct_answer |-> q.answer,
     score_awarded |-> 0, feedback |-> "", similarity |-> NoSimilarity]

\* split_detail with credit for an attempt: a wrong MCQ answer earns 30% of
\* the marks.
split_detail_attempt_credit(idx, q, answers) ==
    LET student_ans == build_answer_map(answers, idx)
        d == new_detail(idx, q, student_ans)
        r == mcq_score(student_ans, q.answer)
    IN  IF is_mcq_type(q.type)
        THEN [d EXCEPT !.score_awarded =
                           IF r.feedback = "Incorrect"
                           THEN py_round(q.marks * 3, 10, 2)
                           ELSE r.score * q.marks * 100,
                       !.feedback = r.feedback]
        ELSE d

\* The first loop: one detail per question, MCQs scored at once.
split_detail(idx, q, answers) ==
    LET student_ans == build_answer_map(answers, idx)
        d == new_detail(idx, q, student_ans)
        r == mcq_score(student_ans, q.answer)
    IN  IF is_mcq_type(q.type)
        THEN [d EXCEPT !.score_awarded = r.score * q.marks * 100,
                       !.feedback = r.feedback]
        ELSE d

split_details(questions, answers) ==
    [idx \in 1..Len(questions) |-> split_detail(idx, questions[idx], answers)]

RECURSIVE collect_subj_indices(_, _)
collect_subj_indices(questions, idx) ==
    IF idx > Len(questions) THEN <<>>
    ELSE IF is_mcq_type(questions[idx].type)
         THEN collect_subj_indices(questions, idx + 1)
         ELSE <<idx>> \o collect_subj_indices(questions, idx + 1)

\* interleave_texts leaving the reference texts out.
interleave_texts_students_only(details, subj_q_indices) ==
    [j \in 1..Len(subj_q_indices) |-> details[subj_q_indices[j]].student_answer]

\* subj_texts: student and reference text of each queued question, interleaved.
interleave_texts(details, subj_q_indices) ==
    [j \in 1..(2 * Len(subj_q_indices)) |->
        LET d == details[subj_q_indices[(j + 1) \div 2]]
        IN  IF j % 2 = 1 THEN d.student_answer ELSE d.correct_answer]

\* overlap_tier taking the overlap over the student's words.
overlap_tier_over_student(detail) ==
    LET student_ans == str_lower(chars(detail.student_answer))
        correct_ans == str_lower(chars(detail.correct_answer))
        student_words == word_set(student_ans)
        correct_words == word_set(correct_ans)
        common == Cardinality(student_words \cap correct_words)
        total == Cardinality(student_words)
    IN  IF student_ans = <<>> THEN 0
        ELSE IF Cardinality(correct_words) = 0 THEN 4
        ELSE IF total = 0 THEN 3
        ELSE IF 10 * common >= 6 * total THEN 1
        ELSE IF 10 * common >= 3 * total THEN 2
        ELSE 3

\* The keyword fallback, shared in shape by both fallback blocks: the tier
\* 0 (no student answer), 1 (overlap >= 0.6), 2 (>= 0.3), 3 (below), 4 (the
\* reference has no words).
overlap_tier(detail) ==
    LET student_ans == str_lower(chars(detail.student_answer))
        correct_ans == str_lower(chars(detail.correct_answer))
        student_words == word_set(student_ans)
        correct_words == word_set(correct_ans)
        common == Cardinality(student_words \cap correct_words)
        total == Cardinality(correct_words)
    IN  IF student_ans = <<>> THEN 0
        ELSE IF total = 0 THEN 4
        ELSE IF 10 * common >= 6 * total THEN 1
        ELSE IF 10 * common >= 3 * total THEN 2
        ELSE 3

\* fallback_award with half the marks for the middle tier.
fallback_award_half(detail, tier) ==
    CASE tier = 1 -> py_round(detail.marks * 7, 10, 2)
      [] tier = 2 -> py_round(detail.marks * 5, 10, 2)
      [] tier = 3 -> py_round(detail.marks * 1, 10, 2)
      [] OTHER -> 0

fallback_award(detail, tier) ==
    CASE tier = 1 -> py_round(detail.marks * 7, 10, 2)
      [] tier = 2 -> py_round(detail.marks * 4, 10, 2)
      [] tier = 3 -> py_round(detail.marks * 1, 10, 2)
      [] OTHER -> 0

\* Fallback inside the loop, when an embedding of the pair is None.
fallback_without_ai(detail) ==
    LET tier == overlap_tier(detail)
    IN  [detail EXCEPT
            !.score_awarded = fallback_award(detail, tier),
            !.feedback =
                CASE tier = 0 -> "No answer provided"
                  [] tier = 1 -> "Partially correct (evaluated without AI)"
                  [] tier = 2 -> "Attempted (evaluated without AI)"
                  [] tier = 3 -> "Insufficient (evaluated without AI)"
                  [] OTHER -> "Could not evaluate"]

\* Fallback of the except block, after an exception inside the loop.
fallback_after_exception(detail) ==
    LET tier == overlap_tier(detail)
    IN  [detail EXCEPT
            !.score_awarded = fallback_award(detail, tier),
            !.feedback =
                CASE tier = 0 -> "No answer provided"
                  [] tier = 1 -> "Partially correct (fallback evaluation)"
                  [] tier = 2 -> "Attempted (fallback evaluation)"
                  [] tier = 3 -> "Insufficient (fallback evaluation)"
                  [] OTHER -> "Could not evaluate"]

\* The similarity table.
similarity_score(detail, sim) ==
    LET row == IF sim_ge(sim, 85, 100) THEN 1
               ELSE IF sim_ge(sim, 7, 10) THEN 2
               ELSE IF sim_ge(sim, 55, 100) THEN 3
               ELSE 4
    IN  [detail EXCEPT
            !.similarity = <<sim_round3(sim)>>,
            !.score_awarded =
                CASE row = 1 -> detail.marks * 100
                  [] row = 2 -> py_round(detail.marks * 6, 10, 2)
                  [] row = 3 -> py_round(detail.marks * 3, 10, 2)
                  [] OTHER -> 0,
            !.feedback =
                CASE row = 1 -> "Excellent"
                  [] row = 2 -> "Partially correct"
                  [] row = 3 -> "Attempted but insufficient"
                  [] OTHER -> "Incorrect / off-topic"]

\* emb_at counting the places of the list from 0 where the list counts from 1.
emb_at_shifted(embeddings, pos) ==
    IF pos + 1 <= Len(embeddings) THEN embeddings[pos + 1] ELSE NoneEmb

emb_at(embeddings, pos) ==
    IF pos <= Len(embeddings) THEN embeddings[pos] ELSE NoneEmb

\* The body of the try block: pairs 1..i-1 are scored; score pair i and go on,
\* or stop at the first exception.
RECURSIVE score_pairs(_, _, _, _)
score_pairs(details, subj_q_indices, embeddings, i) ==
    IF i > Len(subj_q_indices) THEN [raised |-> FALSE, details |-> details]
    ELSE LET q_idx == subj_q_indices[i]
             student_emb == emb_at(embeddings, 2 * i - 1)
             correct_emb == emb_at(embeddings, 2 * i)
             detail == details[q_idx]
         IN  IF ~student_emb.some \/ ~correct_emb.some
             THEN score_pairs([details EXCEPT ![q_idx] = fallback_without_ai(detail)],
                              subj_q_indices, embeddings, i + 1)
             ELSE LET cs == cosine_similarity(student_emb.vec, correct_emb.vec)
                  IN  IF cs.raised
                      THEN [raised |-> TRUE, details |-> details]
                      ELSE score_pairs(
                               [details EXCEPT ![q_idx] = similarity_score(detail, cs.sim)],
                               subj_q_indices, embeddings, i + 1)

\* The try/except around the batch: on an exception every queued question is
\* given the fallback score, those already scored included.
score_subjective(details, subj_q_indices, embeddings) ==
    LET r == score_pairs(details, subj_q_indices, embeddings, 1)
        queued == {subj_q_indices[i] : i \in 1..Len(subj_q_indices)}
    IN  IF ~r.raised THEN r.details
        ELSE [idx \in 1..Len(details) |->
                IF idx \in queued THEN fallback_after_exception(r.details[idx])
                                  ELSE r.details[idx]]

\* sum([q.get("marks", 0) for q in questions]) raises TypeError when the
\* marks of a question are no number.
non_numeric_marks(paper) ==
    \E i \in 1..Len(paper.questions) : "marks_text" \in DOMAIN paper.questions[i]

\* Totals and the evaluation document.
paper_total_marks(paper) ==
    IF "total_marks" \in DOMAIN paper THEN paper.total_marks
    ELSE SeqSum([i \in 1..Len(paper.questions) |-> paper.questions[i].marks])

total_score_of(details) ==
    SeqSum([i \in 1..Len(details) |-> details[i].score_awarded])

\* percentage_of cutting the third decimal off instead of rounding.
percentage_truncated(total_score, total_marks) ==
    IF total_marks # 0 THEN (100 * total_score) \div total_marks ELSE 0

percentage_of(total_score, total_marks) ==
    IF total_marks # 0 THEN py_round(total_score, total_marks, 2) ELSE 0

NoDoc == [present |-> FALSE]
make_evaluation_doc(eval_id, paper_id, paper, details) ==
    [present |-> TRUE, eval_id |-> eval_id, paper_id |-> paper_id,
     total_marks |-> paper_total_marks(paper),
     total_score |-> total_score_of(details),
     percentage |-> percentage_of(total_score_of(details), paper_total_marks(paper)),
     details |-> details, has_object_id |-> FALSE]

(***************************************************************************)
(* The document store.                                                     *)
(***************************************************************************)
\* What one call on a collection can do: succeed, raise a connectivity
\* error (AutoReconnect, ServerSelectionTimeoutError, NetworkTimeout), or
\* raise any other error.
StoreOutcomes == {"ok", "transient", "error"}

RECURSIVE Pow2(_)
Pow2(n) == IF n = 0 THEN 1 ELSE 2 * Pow2(n - 1)

\* mongo_operation_with_retry sleeping the same delay before every retry.
mongo_operation_with_retry_fixed_delay(attempt, max_retries, retry_delay, outcome) ==
    CASE outcome = "ok" -> [next |-> "return", wait |-> 0]
      [] outcome = "transient" ->
            IF attempt < max_retries - 1
            THEN [next |-> "retry", wait |-> retry_delay]
            ELSE [next |-> "raise", wait |-> 0]
      [] OTHER -> [next |-> "raise", wait |-> 0]

\* mongo_operation_with_retry retrying after every error.
mongo_operation_with_retry_any_error(attempt, max_retries, retry_delay, outcome) ==
    CASE outcome = "ok" -> [next |-> "return", wait |-> 0]
      [] OTHER ->
            IF attempt < max_retries - 1
            THEN [next |-> "retry", wait |-> retry_delay * Pow2(attempt)]
            ELSE [next |-> "raise", wait |-> 0]

\* One turn of the retry loop, in attempt number `attempt` (from 0).
mongo_operation_with_retry(attempt, max_retries, retry_delay, outcome) ==
    CASE outcome = "ok" -> [next |-> "return", wait |-> 0]
      [] outcome = "transient" ->
            IF attempt < max_retries - 1
            THEN [next |-> "retry", wait |-> retry_delay * Pow2(attempt)]
            ELSE [next |-> "raise", wait |-> 0]
      [] OTHER -> [next |-> "raise", wait |-> 0]

\* One attempt of an operation: how it turned out and the delay slept after it.
Attempt(operation, outcome, wait) ==
    [operation |-> operation, outcome |-> outcome, wait |-> wait]

\* papers_collection.find_one({"_id": paper_id}).
find_paper(papers, paper_id) ==
    IF paper_id \in DOMAIN papers THEN papers[paper_id] ELSE NoPaper

\* insert_one gives the document it is handed an "_id" (an ObjectId) before
\* it talks to the server.
insert_one_marks(doc) == [doc EXCEPT !.has_object_id = TRUE]

(***************************************************************************)
(* Responses.                                                              *)
(***************************************************************************)
NoResponse == [status |-> 0, error |-> "", evaluation |-> NoDoc]
ErrorResponse(status, error) ==
    [status |-> status, error |-> error, evaluation |-> NoDoc]

\* jsonify of the success body: an ObjectId in the document is not JSON
\* serializable, the TypeError is caught by the route's outer handler.
success_response(doc) ==
    IF doc.has_object_id
    THEN ErrorResponse(500, "Evaluation failed")
    ELSE [status |-> 200, error |-> "", evaluation |-> doc]

(***************************************************************************)
(* State.                                                                  *)
(***************************************************************************)
VARIABLES
    mongo_up,          \* the start-up ping succeeded: the collections are not None
    papers,            \* the question_papers collection
    evaluations,       \* the evaluations collection
    route,             \* the route serving the request
    pc,                \* where the route stands: idle, fetch, embed, save, done
    req,               \* the request body
    paper,             \* the paper being evaluated
    details,           \* the details list
    subj_q_indices,    \* the queued subjective questions
    subj_texts,        \* the list handed to get_embeddings_batch
    provider_response, \* what client.embeddings.create did with it
    embeddings,        \* the list got from get_embeddings_batch
    embed_calls,       \* calls made to the embedding provider
    attempt,           \* attempt number of the running retry loop
    waits,             \* the time.sleep delays taken
    retry_log,         \* the attempts made inside mongo_operation_with_retry
    evaluation_doc,    \* the evaluation document, once built
    response,          \* the response sent
    raw_answer,        \* an answer string handed to extract_answer_letter
    tokens,            \* what extract_answer_letter returned, call after call
    lookup,            \* the lookup a lookup route made, and how the store took it
    lookup_result,     \* the documents the lookup route got
    vec_pair,          \* the two vectors handed to cosine_similarity
    cosine_result,     \* what a cosine_similarity returned for them
    runs,              \* the locals of each concurrent evaluate_student run
    drawn_ids,         \* the eval_ids uuid4 has handed out
    run_store,         \* the evaluations collection the concurrent runs write
    submissions,       \* the submissions list of the assignment
    submit_calls       \* the locals of each concurrent submit_assignment call

\* The state of the routes, and the state of the functions called alone.
route_vars == <<mongo_up, papers, evaluations, route, pc, req, paper, details,
                subj_q_indices, subj_texts, provider_response, embeddings,
                embed_calls, attempt, waits, retry_log, evaluation_doc,
                response>>
unit_vars == <<raw_answer, tokens, lookup, lookup_result,
              vec_pair, cosine_result,
              runs, drawn_ids, run_store, submissions, submit_calls>>
vars == <<route_vars, unit_vars>>

NoRequest == [paper |-> NoPaper, paper_id |-> NoPaperId, answers |-> <<>>]
NoLookup == [key |-> "", outcome |-> "none"]
NoCosine == [evaluator |-> "none", raised |-> FALSE, nan |-> FALSE, sim |-> ZeroSim]

\* The locals of an evaluate_student run that has not started, and of a
\* submit_assignment call that has not started.
Runs == 1..NumRuns
NoRun ==
    [pc |-> "idle", req |-> NoRequest, paper |-> NoPaper, details |-> <<>>,
     subj_q_indices |-> <<>>, provider_response |-> NoCall, attempt |-> 0,
     evaluation_doc |-> NoDoc, response |-> NoResponse]
IdleRuns == [r \in Runs |-> NoRun]
Calls == 1..NumCalls
NoSubmission == [student_id |-> "", answers |-> 0]
NoCall_submit ==
    [pc |-> "idle", submission |-> NoSubmission, existing_submission |-> FALSE,
     attempt |-> 0, status |-> 0]
IdleCalls == [c \in Calls |-> NoCall_submit]

Init ==
    /\ mongo_up \in BOOLEAN
    /\ papers = StoredPapers
    /\ evaluations = {}
    /\ route = "none"
    /\ pc = "idle"
    /\ req = NoRequest
    /\ paper = NoPaper
    /\ details = <<>>
    /\ subj_q_indices = <<>>
    /\ subj_texts = <<>>
    /\ provider_response = NoCall
    /\ embeddings = <<>>
    /\ embed_calls = 0
    /\ attempt = 0
    /\ waits = <<>>
    /\ retry_log = <<>>
    /\ evaluation_doc = NoDoc
    /\ response = NoResponse
    /\ raw_answer = <<>>
    /\ tokens = <<>>
    /\ lookup = NoLookup
    /\ lookup_result = {}
    /\ runs = IdleRuns
    /\ drawn_ids = {}
    /\ run_store = {}
    /\ submissions = <<>>
    /\ submit_calls = IdleCalls
    /\ vec_pair = <<>>
    /\ cosine_result = NoCosine

(***************************************************************************)
(* evaluate_student of unified_service.py.                                 *)
(***************************************************************************)
\* The outcome of a stretch of the route that makes no external call: where
\* it stops and what it has built.
Stop(p, pp, d, subj, doc, resp) ==
    [pc |-> p, paper |-> pp, details |-> d, subj_q_indices |-> subj,
     evaluation_doc |-> doc, response |-> resp]

Reject(status, error) ==
    Stop("done", NoPaper, <<>>, <<>>, NoDoc, ErrorResponse(status, error))

\* Totals, eval_id and the document; then the save, if there is a store.
materialize(r, pp, d, subj, up) ==
    LET doc == make_evaluation_doc(1, r.paper_id, pp, d)
    IN  IF up THEN Stop("save", pp, d, subj, doc, NoResponse)
        ELSE Stop("done", pp, d, subj, doc, success_response(doc))

\* Validation and the first loop over the questions.
validate_and_split(r, pp, up) ==
    IF ~pp.present THEN Reject(400, "No paper provided or found.")
    ELSE IF pp.questions = <<>> THEN Reject(400, "Paper has no questions")
    ELSE IF r.answers = <<>> THEN Reject(400, "No answers provided")
    ELSE IF non_numeric_marks(pp)
    THEN Stop("done", pp, <<>>, <<>>, NoDoc, ErrorResponse(500, "Evaluation failed"))
    ELSE LET d == split_details(pp.questions, r.answers)
             subj == collect_subj_indices(pp.questions, 1)
         IN  IF subj # <<>> THEN Stop("embed", pp, d, subj, NoDoc, NoResponse)
             ELSE materialize(r, pp, d, subj, up)

Become(st) ==
    /\ pc' = st.pc
    /\ paper' = st.paper
    /\ details' = st.details
    /\ subj_q_indices' = st.subj_q_indices
    /\ evaluation_doc' = st.evaluation_doc
    /\ response' = st.response

\* The request arrives; the route runs up to its first external call.
evaluate_student ==
    /\ pc = "idle"
    /\ \E r \in Requests :
        /\ req' = r
        /\ route' = "student"
        /\ IF ~r.paper.present /\ r.paper_id # NoPaperId /\ mongo_up
           THEN Become(Stop("fetch", NoPaper, <<>>, <<>>, NoDoc, NoResponse))
           ELSE \E st \in {validate_and_split(r, r.paper, mongo_up)} : Become(st)
    /\ UNCHANGED <<mongo_up, papers, evaluations, subj_texts, provider_response,
                   embeddings, embed_calls, attempt, waits, retry_log>>
    /\ UNCHANGED unit_vars

\* One attempt of fetch_paper under mongo_operation_with_retry(max_retries=2).
fetch_paper ==
    /\ pc = "fetch"
    /\ route = "student"
    /\ \E outcome \in StoreOutcomes :
        LET step == mongo_operation_with_retry(attempt, 2, 1, outcome)
            found == find_paper(papers, req.paper_id)
        IN  /\ retry_log' = Append(retry_log, Attempt("fetch_paper", outcome, step.wait))
            /\ CASE step.next = "return" ->
                    /\ IF ~found.present
                       THEN Become(Reject(404, "paper_id not found"))
                       ELSE \E st \in {validate_and_split(req, found, mongo_up)} :
                                Become(st)
                    /\ attempt' = 0
                    /\ UNCHANGED waits
              [] step.next = "retry" ->
                    /\ attempt' = attempt + 1
                    /\ waits' = Append(waits, step.wait)
                    /\ UNCHANGED <<pc, paper, details, subj_q_indices,
                                   evaluation_doc, response>>
              [] OTHER ->
                    /\ Become(Reject(500, "Database connection error"))
                    /\ attempt' = 0
                    /\ UNCHANGED waits
    /\ UNCHANGED <<mongo_up, papers, evaluations, route, req, subj_texts,
                   provider_response, embeddings, embed_calls>>
    /\ UNCHANGED unit_vars

\* The batch call and the scoring of the queued questions, up to the save.
embed_and_score ==
    /\ pc = "embed"
    /\ route = "student"
    /\ LET texts == interleave_texts(details, subj_q_indices)
       IN  \E outcome \in ProviderOutcomes(Len(texts)) :
            \E embs \in {get_embeddings_batch(texts, outcome)} :
            \E scored \in {score_subjective(details, subj_q_indices, embs)} :
            \E st \in {materialize(req, paper, scored, subj_q_indices, mongo_up)} :
                /\ subj_texts' = texts
                /\ provider_response' = outcome
                /\ embeddings' = embs
                /\ embed_calls' = embed_calls + 1
                /\ Become(st)
    /\ UNCHANGED <<mongo_up, papers, evaluations, route, req, attempt, waits,
                   retry_log>>
    /\ UNCHANGED unit_vars

\* One attempt of save_evaluation under mongo_operation_with_retry(max_retries=3);
\* when the loop ends, with or without the document saved, the route answers.
save_evaluation ==
    /\ pc = "save"
    /\ route = "student"
    /\ \E outcome \in StoreOutcomes :
        LET step == mongo_operation_with_retry(attempt, 3, 1, outcome)
            doc == insert_one_marks(evaluation_doc)
        IN  /\ evaluation_doc' = doc
            /\ retry_log' = Append(retry_log,
                                   Attempt("save_evaluation", outcome, step.wait))
            /\ CASE step.next = "return" ->
                    /\ evaluations' = evaluations \cup {doc}
                    /\ pc' = "done"
                    /\ response' = success_response(doc)
                    /\ attempt' = 0
                    /\ UNCHANGED waits
                 [] step.next = "retry" ->
                    /\ attempt' = attempt + 1
                    /\ waits' = Append(waits, step.wait)
                    /\ UNCHANGED <<evaluations, pc, response>>
                 [] OTHER ->
                    /\ pc' = "done"
                    /\ response' = success_response(doc)
                    /\ attempt' = 0
                    /\ UNCHANGED <<evaluations, waits>>
    /\ UNCHANGED <<mongo_up, papers, route, req, paper, details,
                   subj_q_indices, subj_texts, provider_response, embeddings,
                   embed_calls>>
    /\ UNCHANGED unit_vars

(***************************************************************************)
(* evaluate_student of smart_evaluator/evaluator.py.  The route makes its  *)
(* external calls in a row and holds no state between them; it is one      *)
(* step, given how each call turns out.                                    *)
(***************************************************************************)
startswith(s, prefix) ==
    Len(prefix) <= Len(s) /\ SubSeq(s, 1, Len(prefix)) = prefix

evaluate_mcq_answer(student_ans, correct_ans) ==
    IF falsy(student_ans) \/ falsy(correct_ans)
    THEN [score |-> 0, feedback |-> "Answer missing."]
    ELSE LET s == str_lower(str_strip(chars(student_ans)))
             c == str_lower(str_strip(chars(correct_ans)))
         IN  IF Len(s) = 1 /\ Len(c) = 1
             THEN IF s = c THEN [score |-> 1, feedback |-> "Correct"]
                           ELSE [score |-> 0, feedback |-> "Incorrect"]
             ELSE IF s = c THEN [score |-> 1, feedback |-> "Correct"]
             ELSE IF startswith(c, s) \/ startswith(s, c)
                  THEN [score |-> 1, feedback |-> "Correct (normalized)"]
             ELSE [score |-> 0, feedback |-> "Incorrect"]

smart_is_mcq_type(type) ==
    str_lower(chars(type)) \in
        {chars("mcq"), chars("multiple"), chars("choice"), chars("multiple choice")}

smart_split_detail(idx, q, answers) ==
    LET student_ans == build_answer_map(answers, idx)
        d == new_detail(idx, q, student_ans)
        r == evaluate_mcq_answer(student_ans, q.answer)
    IN  IF smart_is_mcq_type(q.type)
        THEN [d EXCEPT !.score_awarded = r.score * q.marks * 100,
                       !.feedback = r.feedback]
        ELSE d

RECURSIVE smart_collect_subj(_, _)
smart_collect_subj(questions, idx) ==
    IF idx > Len(questions) THEN <<>>
    ELSE IF smart_is_mcq_type(questions[idx].type)
         THEN smart_collect_subj(questions, idx + 1)
         ELSE <<idx>> \o smart_collect_subj(questions, idx + 1)

\* The loop over the pairs; embeddings[2*i] raises IndexError on a short list.
RECURSIVE smart_score_pairs(_, _, _, _)
smart_score_pairs(d, subj, embs, i) ==
    IF i > Len(subj) THEN [raised |-> FALSE, details |-> d]
    ELSE IF 2 * i > Len(embs) THEN [raised |-> TRUE, details |-> d]
    ELSE LET q_idx == subj[i]
             student_emb == embs[2 * i - 1]
             correct_emb == embs[2 * i]
         IN  IF ~student_emb.some \/ ~correct_emb.some
             THEN smart_score_pairs(
                      [d EXCEPT ![q_idx].score_awarded = 0,
                                ![q_idx].feedback = "Embedding failed - could not evaluate.",
                                ![q_idx].similarity = NoSimilarity],
                      subj, embs, i + 1)
             ELSE LET cs == cosine_similarity(student_emb.vec, correct_emb.vec)
                  IN  IF cs.raised THEN [raised |-> TRUE, details |-> d]
                      ELSE smart_score_pairs(
                               [d EXCEPT ![q_idx] = similarity_score(d[q_idx], cs.sim)],
                               subj, embs, i + 1)

SmartResult(resp, pp, d, subj, embs, calls, doc, stored) ==
    [response |-> resp, paper |-> pp, details |-> d, subj_q_indices |-> subj,
     embeddings |-> embs, calls |-> calls, evaluation_doc |-> doc,
     stored |-> stored]

SmartReject(status, error) ==
    SmartResult(ErrorResponse(status, error), NoPaper, <<>>, <<>>, <<>>, 0,
                NoDoc, FALSE)

\* From the resolved paper to the response.
smart_evaluate(r, pp, provider, insert) ==
    LET d0 == [idx \in 1..Len(pp.questions) |->
                  smart_split_detail(idx, pp.questions[idx], r.answers)]
        subj == smart_collect_subj(pp.questions, 1)
        texts == interleave_texts(d0, subj)
        embs == IF subj = <<>> THEN <<>> ELSE get_embeddings_batch(texts, provider)
        calls == IF subj = <<>> THEN 0 ELSE 1
        scored == smart_score_pairs(d0, subj, embs, 1)
        doc == insert_one_marks(make_evaluation_doc(1, r.paper_id, pp, scored.details))
    IN  IF non_numeric_marks(pp)
        THEN SmartResult(ErrorResponse(500, "Evaluation failed"), pp, <<>>, <<>>,
                         <<>>, 0, NoDoc, FALSE)
        ELSE IF scored.raised
        THEN SmartResult(ErrorResponse(500, "Evaluation failed"), pp, scored.details,
                         subj, embs, calls, NoDoc, FALSE)
        ELSE IF insert # "ok"
        THEN SmartResult(ErrorResponse(500, "Evaluation failed"), pp, scored.details,
                         subj, embs, calls, doc, FALSE)
        ELSE SmartResult(success_response(doc), pp, scored.details, subj, embs,
                         calls, doc, TRUE)

smart_route(r, store_papers, fetch, provider, insert) ==
    IF ~r.paper.present /\ r.paper_id # NoPaperId
    THEN IF fetch # "ok" THEN SmartReject(500, "Evaluation failed")
         ELSE IF ~find_paper(store_papers, r.paper_id).present
              THEN SmartReject(404, "paper_id not found")
              ELSE smart_evaluate(r, find_paper(store_papers, r.paper_id), provider, insert)
    ELSE IF ~r.paper.present THEN SmartReject(400, "No paper provided or found.")
    ELSE smart_evaluate(r, r.paper, provider, insert)

smart_evaluate_student ==
    /\ pc = "idle"
    /\ \E r \in Requests, fetch \in StoreOutcomes, insert \in StoreOutcomes :
        LET pp == IF r.paper.present THEN r.paper ELSE find_paper(papers, r.paper_id)
            n == 2 * Len(smart_collect_subj(pp.questions, 1))
        IN  \E provider \in ProviderOutcomes(n) :
            \E res \in {smart_route(r, papers, fetch, provider, insert)} :
                    /\ req' = r
                    /\ route' = "smart"
                    /\ pc' = "done"
                    /\ paper' = res.paper
                    /\ details' = res.details
                    /\ subj_q_indices' = res.subj_q_indices
                    /\ subj_texts' = IF res.calls = 0 THEN <<>>
                                      ELSE interleave_texts(res.details,
                                                            res.subj_q_indices)
                    /\ provider_response' = IF res.calls = 0 THEN NoCall ELSE provider
                    /\ embeddings' = res.embeddings
                    /\ embed_calls' = embed_calls + res.calls
                    /\ evaluation_doc' = res.evaluation_doc
                    /\ response' = res.response
                    /\ evaluations' = IF res.stored
                                      THEN evaluations \cup {res.evaluation_doc}
                                      ELSE evaluations
    /\ UNCHANGED <<mongo_up, papers, attempt, waits, retry_log>>
    /\ UNCHANGED unit_vars

(***************************************************************************)
(* evaluate_mock of unified_service.py: one step too, given how each of    *)
(* its embedding calls turns out.                                          *)
(***************************************************************************)
\* re.match(r'^([a-zA-Z])[\)\.\:\s]', answer)
letter_then_separator(a) ==
    Len(a) >= 2 /\ ascii_letter(a[1]) /\ a[2] \in {")", ".", ":"} \cup Whitespace

\* extract_answer_letter without its last-but-one rule: an answer that
\* matches no pattern is returned whole, lowercased.
extract_answer_letter_patterns_only(answer) ==
    IF answer = <<>> THEN <<>>
    ELSE LET a == str_strip(answer)
         IN  IF Len(a) = 1 /\ isalpha(a[1]) THEN str_lower(a)
             ELSE IF Len(a) >= 2 /\ isalpha(a[1]) /\ a[2] \in {")", ".", ":"}
                  THEN lower_of(a[1])
             ELSE IF letter_then_separator(a) THEN lower_of(a[1])
             ELSE str_lower(a)

extract_answer_letter(answer) ==
    IF answer = <<>> THEN <<>>
    ELSE LET a == str_strip(answer)
         IN  IF Len(a) = 1 /\ isalpha(a[1]) THEN str_lower(a)
             ELSE IF Len(a) >= 2 /\ isalpha(a[1]) /\ a[2] \in {")", ".", ":"}
                  THEN lower_of(a[1])
             ELSE IF letter_then_separator(a) THEN lower_of(a[1])
             ELSE IF a # <<>> /\ isalpha(a[1]) THEN lower_of(a[1])
             ELSE str_lower(a)

MockQuestion(type, marks, student, correct) ==
    [type |-> type, marks |-> marks, student_answer |-> student,
     correct_answer |-> correct]

\* The questions a mock test is built from, each with the answer given.
MockPalette ==
    { MockQuestion("MCQ", 1, "a) option text", "A"),
      MockQuestion("mixed", 2, " ", "A"),
      MockQuestion("mcq", 3, "x", "a) option text"),
      MockQuestion("Short", 10, "deadlock circular wait",
                   "deadlock occurs when processes wait circularly") }

MockRequests == SeqsUpTo(MockPalette, MaxQuestions)

mock_is_mcq(q) ==
    str_lower(chars(q.type)) \in {chars("mcq"), chars("mixed")}

mock_missing(q) ==
    str_strip(chars(q.student_answer)) = <<>> \/ str_strip(chars(q.correct_answer)) = <<>>

\* The question leads to a call of get_embeddings_batch.
mock_embeds(q) == ~mock_is_mcq(q) /\ ~mock_missing(q)

MockResultOf(idx, q, score, feedback, similarity) ==
    [q_index |-> idx, type |-> text_of(str_lower(chars(q.type))), marks |-> q.marks,
     student_answer |-> q.student_answer, correct_answer |-> q.correct_answer,
     score_awarded |-> score, feedback |-> feedback, similarity |-> similarity]

\* The result of one question: raised, result, and what it adds to total_score.
mock_question(idx, q, provider) ==
    LET student_ans == str_strip(chars(q.student_answer))
        correct_ans == str_strip(chars(q.correct_answer))
        embs == get_embeddings_batch(<<q.student_answer, q.correct_answer>>, provider)
    IN  IF mock_is_mcq(q)
        THEN IF student_ans = <<>> \/ correct_ans = <<>>
             THEN [raised |-> FALSE, add |-> 0,
                   result |-> MockResultOf(idx, q, 0, "Answer missing.", NoSimilarity)]
             ELSE IF extract_answer_letter(student_ans) = extract_answer_letter(correct_ans)
             THEN [raised |-> FALSE, add |-> q.marks * 100,
                   result |-> MockResultOf(idx, q, q.marks * 100, "Correct Answer",
                                           NoSimilarity)]
             ELSE [raised |-> FALSE, add |-> 0,
                   result |-> MockResultOf(idx, q, 0, "Incorrect Answer", NoSimilarity)]
        ELSE IF student_ans = <<>> \/ correct_ans = <<>>
        THEN [raised |-> FALSE, add |-> 0,
              result |-> MockResultOf(idx, q, 0, "Answer missing.", <<0>>)]
        ELSE IF Len(embs) < 2
        THEN [raised |-> TRUE, add |-> 0,
              result |-> MockResultOf(idx, q, 0, "", NoSimilarity)]
        ELSE IF ~embs[1].some \/ ~embs[2].some
        THEN [raised |-> FALSE, add |-> 0,
              result |-> MockResultOf(idx, q, 0, "Embedding generation failed.", <<0>>)]
        ELSE LET cs == cosine_similarity(embs[1].vec, embs[2].vec)
                 score == IF sim_ge(cs.sim, 85, 100) THEN q.marks * 100
                          ELSE IF sim_ge(cs.sim, 7, 10) THEN py_round(q.marks * 6, 10, 2)
                          ELSE 0
                 feedback ==
                     IF sim_ge(cs.sim, 85, 100)
                     THEN "Excellent - conceptually accurate and complete."
                     ELSE IF sim_ge(cs.sim, 7, 10)
                     THEN "Partially correct - needs more detail or clarity."
                     ELSE "Incorrect or lacks conceptual understanding."
             IN  IF cs.raised
                 THEN [raised |-> TRUE, add |-> 0,
                       result |-> MockResultOf(idx, q, 0, "", NoSimilarity)]
                 ELSE [raised |-> FALSE, add |-> score,
                       result |-> MockResultOf(idx, q, score, feedback,
                                               <<sim_round3(cs.sim)>>)]

\* The loop over the questions, from question idx on.
RECURSIVE mock_loop(_, _, _, _)
mock_loop(questions, providers, idx, acc) ==
    IF idx > Len(questions) THEN acc
    ELSE LET r == mock_question(idx, questions[idx], providers[idx])
         IN  IF r.raised
             THEN [acc EXCEPT !.raised = TRUE,
                              !.calls = acc.calls + (IF mock_embeds(questions[idx]) THEN 1 ELSE 0)]
             ELSE mock_loop(questions, providers, idx + 1,
                            [raised |-> FALSE,
                             total_score |-> acc.total_score + r.add,
                             total_marks |-> acc.total_marks + questions[idx].marks,
                             calls |-> acc.calls + (IF mock_embeds(questions[idx]) THEN 1 ELSE 0),
                             evaluated |-> Append(acc.evaluated, r.result)])

mock_route(questions, providers) ==
    LET acc == mock_loop(questions, providers, 1,
                         [raised |-> FALSE, total_score |-> 0, total_marks |-> 0,
                          calls |-> 0, evaluated |-> <<>>])
        doc == [present |-> TRUE, eval_id |-> 0, paper_id |-> NoPaperId,
                total_marks |-> acc.total_marks, total_score |-> acc.total_score,
                percentage |-> percentage_of(acc.total_score, acc.total_marks),
                details |-> acc.evaluated, has_object_id |-> FALSE]
    IN  IF acc.raised
        THEN [response |-> ErrorResponse(500, "Evaluation failed"),
              evaluation_doc |-> NoDoc, details |-> acc.evaluated, calls |-> acc.calls]
        ELSE [response |-> success_response(doc), evaluation_doc |-> doc,
              details |-> acc.evaluated, calls |-> acc.calls]

evaluate_mock ==
    /\ pc = "idle"
    /\ \E questions \in MockRequests :
       \E providers \in {o \in [1..Len(questions) -> ProviderOutcomes(2)] :
                            \A i \in 1..Len(questions) :
                                mock_embeds(questions[i]) \/ o[i].kind = "raise"} :
       \E res \in {mock_route(questions, providers)} :
            /\ req' = [paper |-> Paper(questions), paper_id |-> NoPaperId,
                       answers |-> <<>>]
            /\ route' = "mock"
            /\ pc' = "done"
            /\ paper' = Paper(questions)
            /\ details' = res.details
            /\ embed_calls' = embed_calls + res.calls
            /\ evaluation_doc' = res.evaluation_doc
            /\ response' = res.response
    /\ UNCHANGED <<mongo_up, papers, evaluations, subj_q_indices, subj_texts,
                   provider_response, embeddings, attempt, waits, retry_log>>
    /\ UNCHANGED unit_vars

Next ==
    \/ evaluate_student
    \/ fetch_paper
    \/ embed_and_score
    \/ save_evaluation
    \/ smart_evaluate_student
    \/ evaluate_mock

Spec == Init /\ [][Next]_vars

(***************************************************************************)
(* extract_answer_letter called alone, on an answer string and then on     *)
(* what it returned.                                                       *)
(***************************************************************************)
\* The characters answers are written with: letters of both cases, a
\* separator, a blank, a digit, and the capital I with dot above.
AnswerAlphabet == {"B", "b", ")", " ", "1", CapitalIDot}
RawAnswers == SeqsUpTo(AnswerAlphabet, MaxAnswerLen)

RoutesIdle ==
    /\ mongo_up = FALSE
    /\ papers = StoredPapers
    /\ evaluations = {}
    /\ route = "none"
    /\ pc = "idle"
    /\ req = NoRequest
    /\ paper = NoPaper
    /\ details = <<>>
    /\ subj_q_indices = <<>>
    /\ subj_texts = <<>>
    /\ provider_response = NoCall
    /\ embeddings = <<>>
    /\ embed_calls = 0
    /\ attempt = 0
    /\ waits = <<>>
    /\ retry_log = <<>>
    /\ evaluation_doc = NoDoc
    /\ response = NoResponse

NormalizerInit ==
    /\ RoutesIdle
    /\ raw_answer \in RawAnswers
    /\ tokens = <<>>
    /\ lookup = NoLookup
    /\ lookup_result = {}
    /\ runs = IdleRuns
    /\ drawn_ids = {}
    /\ run_store = {}
    /\ submissions = <<>>
    /\ submit_calls = IdleCalls
    /\ vec_pair = <<>>
    /\ cosine_result = NoCosine

normalize_answer ==
    /\ Len(tokens) < 2
    /\ tokens' = Append(tokens,
                        extract_answer_letter(IF tokens = <<>> THEN raw_answer
                                              ELSE tokens[Len(tokens)]))
    /\ UNCHANGED <<route_vars, raw_answer, lookup, lookup_result,
                   vec_pair, cosine_result,
                   runs, drawn_ids, run_store, submissions, submit_calls>>

NormalizerNext == normalize_answer

NormalizerSpec == NormalizerInit /\ [][NormalizerNext]_vars

(***************************************************************************)
(* cosine_similarity called alone, as each evaluator defines it.           *)
(***************************************************************************)
\* cosine_similarity of mock_test/eval_engine.py: no guard; the quotient of
\* numpy floats 0.0 / 0.0 is nan (with a RuntimeWarning), and np.dot, taken
\* first, raises on vectors of different shapes.
engine_cosine_similarity(vec1, vec2) ==
    LET denom2 == Dot(vec1, vec1) * Dot(vec2, vec2)
    IN  IF Len(vec1) # Len(vec2)
        THEN [raised |-> TRUE, nan |-> FALSE, sim |-> ZeroSim]
        ELSE IF denom2 = 0
        THEN [raised |-> FALSE, nan |-> TRUE, sim |-> ZeroSim]
        ELSE [raised |-> FALSE, nan |-> FALSE,
              sim |-> [dot |-> Dot(vec1, vec2), den2 |-> denom2]]

\* cosine_similarity of smart_evaluator/evaluator.py: the guard, then the
\* quotient.
smart_cosine_similarity(a, b) ==
    LET denom2 == Dot(a, a) * Dot(b, b)
    IN  IF denom2 = 0 THEN [raised |-> FALSE, nan |-> FALSE, sim |-> ZeroSim]
        ELSE IF Len(a) # Len(b) THEN [raised |-> TRUE, nan |-> FALSE, sim |-> ZeroSim]
        ELSE [raised |-> FALSE, nan |-> FALSE,
              sim |-> [dot |-> Dot(a, b), den2 |-> denom2]]

\* The vectors handed in: those of the provider, and vectors of magnitude 0.
VecZero == <<0, 0, 0, 0, 0>>
VecZeroOdd == <<0, 0>>
CosineVecs == StudentVecs \cup ReferenceVecs \cup {VecZero, VecZeroOdd}
Evaluators == {"unified_service", "smart_evaluator", "eval_engine"}

CosineInit ==
    /\ RoutesIdle
    /\ raw_answer = <<>>
    /\ tokens = <<>>
    /\ lookup = NoLookup
    /\ lookup_result = {}
    /\ runs = IdleRuns
    /\ drawn_ids = {}
    /\ run_store = {}
    /\ submissions = <<>>
    /\ submit_calls = IdleCalls
    /\ vec_pair \in CosineVecs \X CosineVecs
    /\ cosine_result = NoCosine

compute_cosine ==
    /\ cosine_result = NoCosine
    /\ \E evaluator \in Evaluators :
        LET unified == cosine_similarity(vec_pair[1], vec_pair[2])
            r == CASE evaluator = "unified_service" ->
                        [raised |-> unified.raised, nan |-> FALSE, sim |-> unified.sim]
                   [] evaluator = "smart_evaluator" ->
                        smart_cosine_similarity(vec_pair[1], vec_pair[2])
                   [] OTHER -> engine_cosine_similarity(vec_pair[1], vec_pair[2])
        IN  cosine_result' = [evaluator |-> evaluator, raised |-> r.raised,
                              nan |-> r.nan, sim |-> r.sim]
    /\ UNCHANGED <<route_vars, raw_answer, tokens, lookup, lookup_result, vec_pair,
                   runs, drawn_ids, run_store, submissions, submit_calls>>

CosineNext == compute_cosine

CosineSpec == CosineInit /\ [][CosineNext]_vars

(***************************************************************************)
(* The lookups: list_evaluations and download_report of                    *)
(* smart_evaluator/evaluator.py, and the paper lookup evaluate_student of  *)
(* unified_service.py starts with (the route up to the end of its lookup). *)
(***************************************************************************)
\* The evaluations collection the lookup routes read, and the keys asked for.
StoredEvaluations ==
    { [eval_id |-> "E1", student_id |-> "S1"],
      [eval_id |-> "E2", student_id |-> "S1"],
      [eval_id |-> "E3", student_id |-> "S2"] }
StudentIds == {"S1", "S2", "S9"}
EvalIds == {"E1", "E2", "E3", "E9"}

\* str(e) of the exception a store call raised.
store_error(outcome) ==
    IF outcome = "transient" THEN "ServerSelectionTimeoutError" ELSE "OperationFailure"

LookupAnswers(key, outcome, result, resp) ==
    /\ lookup' = [key |-> key, outcome |-> outcome]
    /\ lookup_result' = result
    /\ response' = resp
    /\ pc' = "done"

list_evaluations ==
    /\ pc = "idle"
    /\ route' = "list_evaluations"
    /\ \E student_id \in StudentIds, outcome \in StoreOutcomes :
        LET docs == {d \in evaluations : d.student_id = student_id}
        IN  IF outcome = "ok"
            THEN LookupAnswers(student_id, outcome, docs,
                               [status |-> 200, error |-> "", evaluation |-> NoDoc])
            ELSE LookupAnswers(student_id, outcome, {},
                               ErrorResponse(500, store_error(outcome)))
    /\ UNCHANGED <<mongo_up, papers, evaluations, req, paper, details,
                   subj_q_indices, subj_texts, provider_response, embeddings,
                   embed_calls, attempt, waits, retry_log, evaluation_doc,
                   raw_answer, tokens,
                   vec_pair, cosine_result,
                   runs, drawn_ids, run_store, submissions, submit_calls>>

download_report ==
    /\ pc = "idle"
    /\ route' = "download_report"
    /\ \E eval_id \in EvalIds, outcome \in StoreOutcomes :
        LET docs == {d \in evaluations : d.eval_id = eval_id}
        IN  IF outcome # "ok"
            THEN LookupAnswers(eval_id, outcome, {},
                               ErrorResponse(500, store_error(outcome)))
            ELSE IF docs = {}
            THEN LookupAnswers(eval_id, outcome, {},
                               ErrorResponse(404, "Evaluation not found"))
            ELSE LookupAnswers(eval_id, outcome, docs,
                               [status |-> 200, error |-> "", evaluation |-> NoDoc])
    /\ UNCHANGED <<mongo_up, papers, evaluations, req, paper, details,
                   subj_q_indices, subj_texts, provider_response, embeddings,
                   embed_calls, attempt, waits, retry_log, evaluation_doc,
                   raw_answer, tokens,
                   vec_pair, cosine_result,
                   runs, drawn_ids, run_store, submissions, submit_calls>>

LookupInit ==
    /\ mongo_up \in BOOLEAN
    /\ papers = StoredPapers
    /\ evaluations = StoredEvaluations
    /\ route = "none"
    /\ pc = "idle"
    /\ req = NoRequest
    /\ paper = NoPaper
    /\ details = <<>>
    /\ subj_q_indices = <<>>
    /\ subj_texts = <<>>
    /\ provider_response = NoCall
    /\ embeddings = <<>>
    /\ embed_calls = 0
    /\ attempt = 0
    /\ waits = <<>>
    /\ retry_log = <<>>
    /\ evaluation_doc = NoDoc
    /\ response = NoResponse
    /\ raw_answer = <<>>
    /\ tokens = <<>>
    /\ lookup = NoLookup
    /\ lookup_result = {}
    /\ runs = IdleRuns
    /\ drawn_ids = {}
    /\ run_store = {}
    /\ submissions = <<>>
    /\ submit_calls = IdleCalls
    /\ vec_pair = <<>>
    /\ cosine_result = NoCosine

LookupNext ==
    \/ list_evaluations
    \/ download_report
    \/ evaluate_student
    \/ fetch_paper

LookupSpec == LookupInit /\ [][LookupNext]_vars

(***************************************************************************)
(* Concurrent runs of evaluate_student of unified_service.py.  The server  *)
(* serves each request in a thread of its own; everything the route builds *)
(* is a local of the call, the store and the provider are shared.  The     *)
(* store is connected.                                                     *)
(***************************************************************************)
\* The ids uuid4 can hand out: one for each run.
EvalIdSpace == 1..NumRuns

\* uuid.uuid4() drawing an id that was drawn before.
uuid4_repeating(drawn) == EvalIdSpace

\* str(uuid.uuid4()): 122 random bits; the draws are taken to be distinct.
uuid4(drawn) == EvalIdSpace \ drawn

\* The requests of the concurrent runs: an inline paper of one MCQ, the
\* stored paper "P1" with both questions answered, an unknown paper_id.
ConcurrentRequests ==
    { [paper |-> Paper(<<[type |-> "MCQ", marks |-> 1, answer |-> "A"]>>),
       paper_id |-> NoPaperId, answers |-> <<Answer(1, "a")>>],
      [paper |-> NoPaper, paper_id |-> "P1",
       answers |-> <<Answer(1, "a"), Answer(2, "deadlock circular wait")>>],
      [paper |-> NoPaper, paper_id |-> "PX", answers |-> <<Answer(1, "a")>>] }

\* What the provider does with the two texts of such a request: it raises,
\* or it answers with both vectors.
ConcurrentProviderOutcomes(n) ==
    {o \in ProviderOutcomes(n) :
        o.kind = "data" => o.data = <<Vec70, VecRef>>}

ConcurrentInit ==
    /\ mongo_up = TRUE
    /\ papers = StoredPapers
    /\ evaluations = {}
    /\ route = "none"
    /\ pc = "idle"
    /\ req = NoRequest
    /\ paper = NoPaper
    /\ details = <<>>
    /\ subj_q_indices = <<>>
    /\ subj_texts = <<>>
    /\ provider_response = NoCall
    /\ embeddings = <<>>
    /\ embed_calls = 0
    /\ attempt = 0
    /\ waits = <<>>
    /\ retry_log = <<>>
    /\ evaluation_doc = NoDoc
    /\ response = NoResponse
    /\ raw_answer = <<>>
    /\ tokens = <<>>
    /\ lookup = NoLookup
    /\ lookup_result = {}
    /\ vec_pair = <<>>
    /\ cosine_result = NoCosine
    /\ runs = IdleRuns
    /\ drawn_ids = {}
    /\ run_store = {}
    /\ submissions = <<>>
    /\ submit_calls = IdleCalls

\* Run r goes on with what a stretch of the route built; a document built in
\* the stretch gets its eval_id from uuid4.
run_becomes(r, rq, st, outcome) ==
    \E id \in uuid4(drawn_ids) :
        LET doc == IF st.evaluation_doc.present
                   THEN [st.evaluation_doc EXCEPT !.eval_id = id]
                   ELSE NoDoc
        IN  /\ runs' = [runs EXCEPT ![r] =
                    [pc |-> st.pc, req |-> rq, paper |-> st.paper,
                     details |-> st.details,
                     subj_q_indices |-> st.subj_q_indices,
                     provider_response |-> outcome, attempt |-> 0,
                     evaluation_doc |-> doc, response |-> st.response]]
            /\ drawn_ids' = IF st.evaluation_doc.present
                            THEN drawn_ids \cup {id} ELSE drawn_ids

\* The request of run r arrives.
run_evaluate_student(r) ==
    /\ runs[r].pc = "idle"
    /\ \E rq \in ConcurrentRequests :
        IF ~rq.paper.present /\ rq.paper_id # NoPaperId
        THEN /\ runs' = [runs EXCEPT ![r] = [NoRun EXCEPT !.pc = "fetch", !.req = rq]]
             /\ UNCHANGED drawn_ids
        ELSE run_becomes(r, rq, validate_and_split(rq, rq.paper, TRUE), NoCall)
    /\ UNCHANGED <<route_vars, raw_answer, tokens, lookup, lookup_result,
                   vec_pair, cosine_result, run_store, submissions, submit_calls>>

\* One attempt of fetch_paper of run r.
run_fetch_paper(r) ==
    /\ runs[r].pc = "fetch"
    /\ \E outcome \in StoreOutcomes :
        LET step == mongo_operation_with_retry(runs[r].attempt, 2, 1, outcome)
            found == find_paper(papers, runs[r].req.paper_id)
        IN  CASE step.next = "return" ->
                    IF ~found.present
                    THEN run_becomes(r, runs[r].req,
                                     Reject(404, "paper_id not found"), NoCall)
                    ELSE run_becomes(r, runs[r].req,
                                     validate_and_split(runs[r].req, found, TRUE),
                                     NoCall)
              [] step.next = "retry" ->
                    /\ runs' = [runs EXCEPT ![r].attempt = @ + 1]
                    /\ UNCHANGED drawn_ids
              [] OTHER ->
                    run_becomes(r, runs[r].req,
                                Reject(500, "Database connection error"), NoCall)
    /\ UNCHANGED <<route_vars, raw_answer, tokens, lookup, lookup_result,
                   vec_pair, cosine_result, run_store, submissions, submit_calls>>

\* The batch call of run r and the scoring of its queued questions.
run_embed_and_score(r) ==
    /\ runs[r].pc = "embed"
    /\ LET run == runs[r]
           texts == interleave_texts(run.details, run.subj_q_indices)
       IN  \E outcome \in ConcurrentProviderOutcomes(Len(texts)) :
            \E embs \in {get_embeddings_batch(texts, outcome)} :
            \E scored \in {score_subjective(run.details, run.subj_q_indices, embs)} :
                run_becomes(r, run.req,
                            materialize(run.req, run.paper, scored,
                                        run.subj_q_indices, TRUE),
                            outcome)
    /\ UNCHANGED <<route_vars, raw_answer, tokens, lookup, lookup_result,
                   vec_pair, cosine_result, run_store, submissions, submit_calls>>

\* One attempt of save_evaluation of run r.
run_save_evaluation(r) ==
    /\ runs[r].pc = "save"
    /\ \E outcome \in StoreOutcomes :
        LET step == mongo_operation_with_retry(runs[r].attempt, 3, 1, outcome)
            doc == insert_one_marks(runs[r].evaluation_doc)
        IN  CASE step.next = "return" ->
                    /\ run_store' = run_store \cup {doc}
                    /\ runs' = [runs EXCEPT ![r].evaluation_doc = doc,
                                            ![r].pc = "done",
                                            ![r].attempt = 0,
                                            ![r].response = success_response(doc)]
              [] step.next = "retry" ->
                    /\ runs' = [runs EXCEPT ![r].evaluation_doc = doc,
                                            ![r].attempt = @ + 1]
                    /\ UNCHANGED run_store
              [] OTHER ->
                    /\ runs' = [runs EXCEPT ![r].evaluation_doc = doc,
                                            ![r].pc = "done",
                                            ![r].attempt = 0,
                                            ![r].response = success_response(doc)]
                    /\ UNCHANGED run_store
    /\ UNCHANGED <<route_vars, raw_answer, tokens, lookup, lookup_result,
                   vec_pair, cosine_result, drawn_ids, submissions, submit_calls>>

ConcurrentNext ==
    \E r \in Runs :
        \/ run_evaluate_student(r)
        \/ run_fetch_paper(r)
        \/ run_embed_and_score(r)
        \/ run_save_evaluation(r)

ConcurrentSpec == ConcurrentInit /\ [][ConcurrentNext]_vars

(***************************************************************************)
(* Concurrent calls of submit_assignment of unified_service.py, all for    *)
(* one assignment that exists.  A call reads the assignment, looks for a   *)
(* submission of its student in what it read, and then updates the store.  *)
(***************************************************************************)
\* The student_id of the request; the empty one is rejected.
SubmittingStudents == {"", "S1", "S2"}

\* {"$set": {"submissions.$": submission}} under the filter
\* "submissions.student_id": the first submission of the student is replaced;
\* without one the filter matches nothing.
RECURSIVE set_positional(_, _, _)
set_positional(list, submission, i) ==
    IF i > Len(list) THEN list
    ELSE IF list[i].student_id = submission.student_id
    THEN [list EXCEPT ![i] = submission]
    ELSE set_positional(list, submission, i + 1)

\* The loop over submissions_list of the assignment that was read.
find_existing(list, student_id) ==
    \E i \in DOMAIN list : list[i].student_id = student_id

SubmitInit ==
    /\ ConcurrentInit

\* The request of call c arrives; its answers are marked with c.
submit_assignment(c) ==
    /\ submit_calls[c].pc = "idle"
    /\ \E student_id \in SubmittingStudents :
        submit_calls' = [submit_calls EXCEPT ![c] =
            IF student_id = ""
            THEN [NoCall_submit EXCEPT !.pc = "done", !.status = 400]
            ELSE [NoCall_submit EXCEPT !.pc = "find",
                    !.submission = [student_id |-> student_id, answers |-> c]]]
    /\ UNCHANGED <<route_vars, raw_answer, tokens, lookup, lookup_result,
                   vec_pair, cosine_result, runs, drawn_ids, run_store,
                   submissions>>

\* One attempt of find_assignment of call c, and the search for an earlier
\* submission in the list it read.
find_assignment(c) ==
    /\ submit_calls[c].pc = "find"
    /\ \E outcome \in StoreOutcomes :
        LET call == submit_calls[c]
            step == mongo_operation_with_retry(call.attempt, 2, 1, outcome)
        IN  submit_calls' = [submit_calls EXCEPT ![c] =
                CASE step.next = "return" ->
                        [call EXCEPT !.pc = "save", !.attempt = 0,
                            !.existing_submission =
                                find_existing(submissions, call.submission.student_id)]
                  [] step.next = "retry" -> [call EXCEPT !.attempt = @ + 1]
                  [] OTHER -> [call EXCEPT !.pc = "done", !.attempt = 0,
                                           !.status = 500]]
    /\ UNCHANGED <<route_vars, raw_answer, tokens, lookup, lookup_result,
                   vec_pair, cosine_result, runs, drawn_ids, run_store,
                   submissions>>

\* One attempt of save_submission of call c.
save_submission(c) ==
    /\ submit_calls[c].pc = "save"
    /\ \E outcome \in StoreOutcomes :
        LET call == submit_calls[c]
            step == mongo_operation_with_retry(call.attempt, 3, 1, outcome)
        IN  CASE step.next = "return" ->
                    /\ submissions' =
                        IF call.existing_submission
                        THEN set_positional(submissions, call.submission, 1)
                        ELSE Append(submissions, call.submission)
                    /\ submit_calls' = [submit_calls EXCEPT ![c] =
                            [call EXCEPT !.pc = "done", !.attempt = 0,
                                         !.status = 200]]
              [] step.next = "retry" ->
                    /\ submit_calls' = [submit_calls EXCEPT ![c].attempt = @ + 1]
                    /\ UNCHANGED submissions
              [] OTHER ->
                    /\ submit_calls' = [submit_calls EXCEPT ![c] =
                            [call EXCEPT !.pc = "done", !.attempt = 0,
                                         !.status = 500]]
                    /\ UNCHANGED submissions
    /\ UNCHANGED <<route_vars, raw_answer, tokens, lookup, lookup_result,
                   vec_pair, cosine_result, runs, drawn_ids, run_store>>

\* A finished call leaves; the server takes the next request.
submit_returns(c) ==
    /\ submit_calls[c].pc = "done"
    /\ Len(submissions) < NumCalls + 1
    /\ submit_calls' = [submit_calls EXCEPT ![c] = NoCall_submit]
    /\ UNCHANGED <<route_vars, raw_answer, tokens, lookup, lookup_result,
                   vec_pair, cosine_result, runs, drawn_ids, run_store,
                   submissions>>

SubmitNext ==
    \E c \in Calls :
        \/ submit_assignment(c)
        \/ find_assignment(c)
        \/ save_submission(c)
        \/ submit_returns(c)

SubmitSpec == SubmitInit /\ [][SubmitNext]_vars

(***************************************************************************)
(* Properties.                                                             *)
(***************************************************************************)
Done == pc = "done"
StudentDone == Done /\ route = "student"

\* The evaluation records there are: the document of the run and the saved ones.
Records ==
    (IF evaluation_doc.present THEN {evaluation_doc} ELSE {}) \cup evaluations

\* A record with one detail per question of the paper, in paper order.
CompleteRecord(doc, pp) ==
    /\ doc.present
    /\ Len(doc.details) = Len(pp.questions)
    /\ \A i \in 1..Len(doc.details) : doc.details[i].q_index = i

\* The types each route scores as MCQ, by name.
McqFamily ==
    CASE route = "smart" -> {"MCQ", "mcq", "multiple", "choice", "multiple choice"}
      [] route = "mock" -> {"MCQ", "mcq", "mixed"}
      [] OTHER -> {"MCQ", "mcq", "multiple", "choice"}

QueuedPositions == 1..Len(subj_q_indices)

\* C1: a request of evaluate_student with a resolved paper of at least one
\* question and at least one answer ends in a success response that carries
\* a complete evaluation record, whatever the embedding provider did.
C1_ValidSubmissionSucceeds ==
    (StudentDone /\ paper.present /\ paper.questions # <<>> /\ req.answers # <<>>)
        => (response.status = 200 /\ CompleteRecord(response.evaluation, paper))

\* The batch call raised: every embedding the route got is None.
BatchRaised ==
    embeddings # <<>> /\ \A i \in 1..Len(embeddings) : ~embeddings[i].some

FallbackLabels ==
    {"No answer provided", "Could not evaluate",
     "Partially correct (evaluated without AI)", "Attempted (evaluated without AI)",
     "Insufficient (evaluated without AI)",
     "Partially correct (fallback evaluation)", "Attempted (fallback evaluation)",
     "Insufficient (fallback evaluation)"}

\* C2: when the embedding batch call raises, every subjective detail is
\* filled in by the fallback policy and the response still carries the full
\* evaluation record.
C2_BatchFailureStillAnswers ==
    (StudentDone /\ BatchRaised)
        => /\ \A i \in QueuedPositions :
                details[subj_q_indices[i]].feedback \in FallbackLabels
           /\ response.status = 200
           /\ CompleteRecord(response.evaluation, paper)

\* The row of the similarity table for marks m, award in hundredths.
TableRow(m, sim) ==
    IF sim_ge(sim, 85, 100) THEN [awarded |-> 100 * m, feedback |-> "Excellent"]
    ELSE IF sim_ge(sim, 70, 100) THEN [awarded |-> 60 * m, feedback |-> "Partially correct"]
    ELSE IF sim_ge(sim, 55, 100)
         THEN [awarded |-> 30 * m, feedback |-> "Attempted but insufficient"]
    ELSE [awarded |-> 0, feedback |-> "Incorrect / off-topic"]

\* C3: in evaluate_student a subjective question whose two embeddings are
\* available and whose similarity s was computed carries the award and the
\* label of the table row of s, the boundaries 0.55, 0.70 and 0.85 belonging
\* to the upper row.
C3_SimilarityTable ==
    (route = "student" /\ pc \in {"save", "done"})
        => \A i \in QueuedPositions :
            LET d == details[subj_q_indices[i]]
                e1 == emb_at(embeddings, 2 * i - 1)
                e2 == emb_at(embeddings, 2 * i)
            IN  (e1.some /\ e2.some /\ d.similarity # NoSimilarity)
                    => LET row == TableRow(d.marks, cosine_similarity(e1.vec, e2.vec).sim)
                       IN  d.score_awarded = row.awarded /\ d.feedback = row.feedback

RECURSIVE AwardedSum(_, _)
AwardedSum(ds, n) ==
    IF n = 0 THEN 0 ELSE ds[n].score_awarded + AwardedSum(ds, n - 1)

\* C5: in every evaluation record the total score is the sum of the awards of
\* its details; the percentage is 100 * total / total marks to the nearest
\* hundredth when the total marks are not 0, and 0 when they are.
C5_TotalsAndPercentage ==
    \A doc \in Records :
        /\ doc.total_score = AwardedSum(doc.details, Len(doc.details))
        /\ doc.total_marks # 0
            => 2 * Abs(doc.percentage * doc.total_marks - 100 * doc.total_score)
                    <= Abs(doc.total_marks)
        /\ doc.total_marks = 0 => doc.percentage = 0

\* A record whose percentage had to be rounded (7 marks of 11).
C5_Witness ==
    /\ Done
    /\ evaluation_doc.present
    /\ evaluation_doc.total_marks = 11
    /\ evaluation_doc.total_score = 700
    /\ evaluation_doc.percentage = 6364

\* C6: every detail of every evaluation record has an award between 0 and
\* the marks of its question.
C6_AwardWithinMarks ==
    \A doc \in Records : \A i \in 1..Len(doc.details) :
        /\ 0 <= doc.details[i].score_awarded
        /\ doc.details[i].score_awarded <= 100 * doc.details[i].marks

\* C7: evaluate_student answers 400 when the request names no paper, when the
\* paper has no questions, and when it carries no answer; no embedding call is
\* made then and no evaluation record is built or saved.
C7_ValidationErrors ==
    (/\ Done
     /\ route \in {"student", "smart"}
     /\ \/ ~req.paper.present /\ req.paper_id = NoPaperId
        \/ req.paper.present /\ req.paper.questions = <<>>
        \/ req.paper.present /\ req.answers = <<>>)
        => /\ response.status = 400
           /\ embed_calls = 0
           /\ ~evaluation_doc.present
           /\ evaluations = {}

\* C8: a request with a paper_id, no inline paper and no stored paper of that
\* id is answered 404 and builds no evaluation record, whatever the state of
\* the store.
C8_MissingPaperIsNotFound ==
    (/\ StudentDone
     /\ ~req.paper.present
     /\ req.paper_id # NoPaperId
     /\ req.paper_id \notin DOMAIN papers)
        => /\ response.status = 404
           /\ ~evaluation_doc.present
           /\ evaluations = {}

\* C9: in evaluate_student an MCQ is awarded its marks exactly when the
\* normalized student answer equals the normalized reference answer
\* (extract_answer_letter on both sides), and then is labelled "Correct": so
\* is "a) option text" against the reference "A".
C9_McqNormalizedMatch ==
    (route = "student")
        => \A i \in 1..Len(details) :
            LET d == details[i]
                match == /\ str_strip(chars(d.student_answer)) # <<>>
                         /\ str_strip(chars(d.correct_answer)) # <<>>
                         /\ extract_answer_letter(chars(d.student_answer))
                                = extract_answer_letter(chars(d.correct_answer))
            IN  d.type \in McqFamily
                    => /\ (d.score_awarded = 100 * d.marks) <=> match
                       /\ match => d.feedback = "Correct"

\* C10: an MCQ is labelled "Answer missing" exactly when the student answer
\* or the reference answer is empty once trimmed; otherwise it is labelled
\* correct or incorrect.
C10_AnswerMissingLabel ==
    \A doc \in Records : \A i \in 1..Len(doc.details) :
        LET d == doc.details[i]
            missing == \/ str_strip(chars(d.student_answer)) = <<>>
                       \/ str_strip(chars(d.correct_answer)) = <<>>
        IN  d.type \in McqFamily
                => /\ (d.feedback = "Answer missing.") <=> missing
                   /\ ~missing => d.feedback \in
                        {"Correct", "Incorrect", "Correct (normalized)",
                         "Correct Answer", "Incorrect Answer"}

(***************************************************************************)
(* The answer normalizer.                                                  *)
(***************************************************************************)
\* C11: extract_answer_letter is idempotent: applied to its own result it
\* returns that result.
C11_NormalizerIdempotent ==
    Len(tokens) = 2 => tokens[2] = tokens[1]

\* The cascade of five rules, on the trimmed answer t.
Cascade(t) ==
    CASE Len(t) = 1 /\ isalpha(t[1]) -> str_lower(t)
      [] Len(t) >= 2 /\ isalpha(t[1]) /\ t[2] \in {")", ".", ":"} -> str_lower(<<t[1]>>)
      [] Len(t) >= 2 /\ isalpha(t[1]) /\ t[2] \in {")", ".", ":", " "} -> str_lower(<<t[1]>>)
      [] Len(t) >= 1 /\ isalpha(t[1]) -> str_lower(<<t[1]>>)
      [] OTHER -> str_lower(t)

\* C12: for every answer string extract_answer_letter returns the token of
\* the five-rule cascade, taken on the trimmed string.
C12_NormalizerCascade ==
    Len(tokens) >= 1 => tokens[1] = Cascade(str_strip(raw_answer))

\* A letter outside ASCII followed by a blank has been normalized: the
\* regular expression does not match it, the rule after it does.
C12_Witness ==
    /\ raw_answer = <<CapitalIDot, " ", "b">>
    /\ Len(tokens) >= 1
    /\ tokens[1] = <<"i", CombiningDot>>

(***************************************************************************)
(* The answers of a submission.                                            *)
(***************************************************************************)
\* The student_answer of the last entry of the list with the q_index i, ""
\* when there is none.
LastAnswer(answers, i) ==
    LET at == {k \in 1..Len(answers) : answers[k].q_index = i}
    IN  IF at = {} THEN ""
        ELSE answers[CHOOSE k \in at : \A j \in at : j <= k].student_answer

\* C13: for each question index of the paper, evaluate_student uses the
\* student_answer of the last submitted entry with that q_index, and the
\* empty answer when no entry has it.
C13_LastAnswerWins ==
    route \in {"student", "smart"} =>
        \A i \in 1..Len(details) :
            details[i].student_answer = LastAnswer(req.answers, details[i].q_index)

\* Two answers were submitted for question 1 and the later one was used;
\* question 2 had no answer.
C13_Witness ==
    /\ route = "student"
    /\ req.answers = <<Answer(1, " "), Answer(1, "deadlock circular wait")>>
    /\ Len(details) = 2
    /\ details[1].student_answer = "deadlock circular wait"
    /\ details[2].student_answer = ""

(***************************************************************************)
(* The embedding provider.                                                 *)
(***************************************************************************)
\* get_embeddings_batch has been called by evaluate_student.
BatchCalled == route \in {"student", "smart"} /\ provider_response # NoCall

\* C14: get_embeddings_batch returns a list as long as its input and in its
\* order: the provider's vectors when it answered in full, and one null per
\* text when the call failed or the response was shorter than the input.
C14_BatchSameLengthAndOrder ==
    BatchCalled =>
        /\ Len(embeddings) = Len(subj_texts)
        /\ IF provider_response.kind = "raise"
              \/ Len(provider_response.data) < Len(subj_texts)
           THEN \A i \in 1..Len(embeddings) : embeddings[i] = NoneEmb
           ELSE \A i \in 1..Len(embeddings) :
                    embeddings[i] = SomeEmb(provider_response.data[i])

\* The run went past validation: it has its details and is past the batch.
Evaluated ==
    route \in {"student", "smart"} /\ pc \in {"save", "done"} /\ details # <<>>

\* Student and reference text of every subjective question from i on.
RECURSIVE WholeTextList(_, _, _)
WholeTextList(questions, answers, i) ==
    IF i > Len(questions) THEN <<>>
    ELSE (IF questions[i].type \in McqFamily THEN <<>>
          ELSE <<LastAnswer(answers, i), questions[i].answer>>)
         \o WholeTextList(questions, answers, i + 1)

\* C15: a run of evaluate_student calls the embedding provider at most once:
\* once, with the whole interleaved text list, when the paper has a
\* subjective question, never when it has none, and not again after a
\* failed call.
C15_ProviderCalledOnce ==
    /\ route \in {"student", "smart"} => embed_calls <= 1
    /\ Evaluated =>
          LET texts == WholeTextList(paper.questions, req.answers, 1)
          IN  IF texts = <<>> THEN embed_calls = 0 /\ provider_response = NoCall
              ELSE embed_calls = 1 /\ subj_texts = texts

\* The call for two subjective questions raised and the run ended without
\* another call.
C15_Witness ==
    /\ route = "student"
    /\ pc = "done"
    /\ Len(subj_texts) = 4
    /\ provider_response.kind = "raise"
    /\ embed_calls = 1

(***************************************************************************)
(* Saving the evaluation record.                                           *)
(***************************************************************************)
IsSaveAttempt(a) == a.operation = "save_evaluation"
SaveAttempts == SelectSeq(retry_log, IsSaveAttempt)

\* C16: the save is attempted again after each transient connectivity
\* error, after a delay of 1 and then 2 time units, at most 3 times in all;
\* a success ends the retries, and an error leaves the retry loop only when
\* no attempt is left (or the error is not a connectivity error).
C16_SaveRetriesWithBackoff ==
    route = "student" =>
        LET sv == SaveAttempts
            n == Len(sv)
        IN  /\ n <= 3
            /\ pc = "save" => n < 3
            /\ \A k \in 1..n :
                  IF sv[k].outcome = "transient" /\ k < 3
                  THEN /\ sv[k].wait = (IF k = 1 THEN 1 ELSE 2 * sv[k - 1].wait)
                       /\ k < n \/ pc = "save"
                  ELSE /\ sv[k].wait = 0
                       /\ k = n
                       /\ pc = "done"

\* Three attempts failed on connectivity errors, 1 and 2 time units apart,
\* and the retry loop gave up.
C16_Witness ==
    /\ route = "student"
    /\ pc = "done"
    /\ Len(SaveAttempts) = 3
    /\ \A k \in 1..3 : SaveAttempts[k].outcome = "transient"
    /\ SaveAttempts[1].wait = 1
    /\ SaveAttempts[2].wait = 2
    /\ evaluations = {}

\* The run computed its record and the record is not in the store: the
\* store was unavailable, or the save failed on its last attempt.
PersistFailed ==
    /\ route \in {"student", "smart"}
    /\ Done
    /\ evaluation_doc.present
    /\ evaluation_doc \notin evaluations

\* C17: a failure to persist the evaluation record does not fail
\* evaluate_student: the response is a success carrying the computed record
\* and its eval_id.
C17_PersistFailureStillAnswers ==
    PersistFailed =>
        /\ response.status = 200
        /\ response.evaluation.present
        /\ response.evaluation.eval_id = evaluation_doc.eval_id
        /\ response.evaluation.details = details

(***************************************************************************)
(* Lookups on an unavailable store.                                        *)
(***************************************************************************)
\* The paper lookup of evaluate_student ended on an error of the store.
PaperLookupFailed ==
    /\ route = "student"
    /\ retry_log # <<>>
    /\ retry_log[Len(retry_log)].operation = "fetch_paper"
    /\ retry_log[Len(retry_log)].outcome # "ok"
    /\ pc # "fetch"

\* C18: a lookup on the store (evaluations by student, evaluation by id,
\* paper by id) surfaces no error when the store is unavailable: it gives
\* an empty result.
C18_LookupsDegradeGracefully ==
    /\ (route = "list_evaluations" /\ lookup.outcome # "ok")
          => (response.status = 200 /\ lookup_result = {})
    /\ (route = "download_report" /\ lookup.outcome # "ok")
          => (response.status # 500 /\ lookup_result = {})
    /\ PaperLookupFailed => response.status # 500
    /\ (route = "student" /\ ~mongo_up /\ req.paper_id # NoPaperId /\ Done)
          => response.status # 500

(***************************************************************************)
(* The keyword fallback.                                                   *)
(***************************************************************************)
Tokens(text) == word_set(str_lower(chars(text)))

\* The subjective details scored without a similarity.
FallbackDetails ==
    IF route = "student" /\ pc \in {"save", "done"}
    THEN {details[subj_q_indices[i]] : i \in QueuedPositions} \cap
         {d \in {details[k] : k \in 1..Len(details)} : d.similarity = NoSimilarity}
    ELSE {}

\* The award by the overlap of the student's tokens with the reference's.
OverlapAward(d) ==
    LET ref == Tokens(d.correct_answer)
        common == Cardinality(Tokens(d.student_answer) \cap ref)
    IN  IF ref = {} THEN 0
        ELSE IF 10 * common >= 6 * Cardinality(ref) THEN py_round(7 * d.marks, 10, 2)
        ELSE IF 10 * common >= 3 * Cardinality(ref) THEN py_round(4 * d.marks, 10, 2)
        ELSE py_round(d.marks, 10, 2)

\* The labels that mark a fallback evaluation, and those of a model-based score.
MarkedFallbackLabels ==
    {"Partially correct (evaluated without AI)", "Attempted (evaluated without AI)",
     "Insufficient (evaluated without AI)",
     "Partially correct (fallback evaluation)", "Attempted (fallback evaluation)",
     "Insufficient (fallback evaluation)"}
ModelLabels ==
    {"Excellent", "Partially correct", "Attempted but insufficient",
     "Incorrect / off-topic"}

\* C19 as stated: every detail scored without a similarity is awarded by
\* the overlap alone and carries a label that marks a fallback evaluation.
C19_OverlapAloneAndMarked ==
    \A d \in FallbackDetails :
        /\ d.score_awarded = OverlapAward(d)
        /\ d.feedback \in MarkedFallbackLabels

\* The label the fallback gives with an award.
OverlapLabels(d) ==
    LET ref == Tokens(d.correct_answer)
        common == Cardinality(Tokens(d.student_answer) \cap ref)
    IN  IF ref = {} THEN {"Could not evaluate"}
        ELSE IF 10 * common >= 6 * Cardinality(ref)
        THEN {"Partially correct (evaluated without AI)",
              "Partially correct (fallback evaluation)"}
        ELSE IF 10 * common >= 3 * Cardinality(ref)
        THEN {"Attempted (evaluated without AI)", "Attempted (fallback evaluation)"}
        ELSE {"Insufficient (evaluated without AI)", "Insufficient (fallback evaluation)"}

\* C19: a detail scored without a similarity gets 0 and "No answer
\* provided" when the student answer is empty; otherwise the award of the
\* overlap tier (0.7, 0.4, 0.1 of the marks, 0 when the reference has no
\* tokens) with the tier's label, which no model-based score carries.
C19_FallbackTiers ==
    \A d \in FallbackDetails :
        /\ IF d.student_answer = ""
           THEN d.score_awarded = 0 /\ d.feedback = "No answer provided"
           ELSE d.score_awarded = OverlapAward(d) /\ d.feedback \in OverlapLabels(d)
        /\ d.feedback \notin ModelLabels

\* A fallback award of the top tier: 5 of the 6 reference tokens are in the
\* answer, 7 of 10 marks are given.
C19_Witness ==
    \E d \in FallbackDetails :
        /\ d.student_answer = "Deadlock occurs when processes wait"
        /\ d.marks = 10
        /\ d.score_awarded = 700
        /\ d.feedback = "Partially correct (evaluated without AI)"

\* Scenario D: the embedding call raised, and a subjective question was
\* answered "deadlock circular wait" against the reference "deadlock occurs
\* when processes wait circularly".
ScenarioD ==
    IF route = "student" /\ provider_response.kind = "raise"
    THEN {d \in FallbackDetails :
            /\ d.student_answer = "deadlock circular wait"
            /\ d.correct_answer = "deadlock occurs when processes wait circularly"}
    ELSE {}

\* C20 as stated: in Scenario D the award is round(0.7 * marks, 2) and the
\* label contains "fallback".
C20_ScenarioD_TopTier ==
    \A d \in ScenarioD :
        /\ d.score_awarded = py_round(7 * d.marks, 10, 2)
        /\ d.feedback \in {"Partially correct (fallback evaluation)",
                           "Attempted (fallback evaluation)",
                           "Insufficient (fallback evaluation)"}

\* C20: in Scenario D the overlap is 2 of 6 reference tokens, the award is
\* round(0.4 * marks, 2) and the label "Attempted (evaluated without AI)".
C20_ScenarioD_MiddleTier ==
    \A d \in ScenarioD :
        /\ Cardinality(Tokens(d.correct_answer)) = 6
        /\ Cardinality(Tokens(d.student_answer) \cap Tokens(d.correct_answer)) = 2
        /\ d.score_awarded = py_round(4 * d.marks, 10, 2)
        /\ d.feedback = "Attempted (evaluated without AI)"

\* Scenario D on a question of 10 marks: 4 marks are given.
C20_Witness ==
    \E d \in ScenarioD : d.marks = 10 /\ d.score_awarded = 400

(***************************************************************************)
(* Malformed marks.                                                        *)
(***************************************************************************)
\* The marks of the question are no number, or negative.
MalformedMarks(q) == "marks_text" \in DOMAIN q \/ q.marks < 0

\* A run of the unified route on a paper with questions and with answers.
ValidRunDone ==
    StudentDone /\ paper.present /\ paper.questions # <<>> /\ req.answers # <<>>

\* C21: malformed marks of a question (no number, negative) count as 0 for
\* that question and stop nothing: the run builds its record with a detail
\* for every question, and the question with the malformed marks has marks
\* 0 and award 0 in it.
C21_MalformedMarksClamped ==
    ValidRunDone =>
        /\ evaluation_doc.present
        /\ Len(details) = Len(paper.questions)
        /\ \A i \in 1..Len(details) :
              MalformedMarks(paper.questions[i])
                  => (details[i].marks = 0 /\ details[i].score_awarded = 0)

(***************************************************************************)
(* The cosine of vectors of magnitude 0.                                   *)
(***************************************************************************)
\* C22: in every evaluator cosine_similarity returns 0.0 when a vector has
\* magnitude 0: it neither raises nor divides by zero.
C22_ZeroMagnitudeGuard ==
    (cosine_result # NoCosine
        /\ (Dot(vec_pair[1], vec_pair[1]) = 0 \/ Dot(vec_pair[2], vec_pair[2]) = 0))
        => (~cosine_result.raised /\ ~cosine_result.nan /\ cosine_result.sim = ZeroSim)

(***************************************************************************)
(* The record and the store.                                               *)
(***************************************************************************)
\* The run handed its record to the store, whatever came of it.
SaveAttempted ==
    /\ Done
    /\ evaluation_doc.present
    /\ \/ route = "student" /\ SaveAttempts # <<>>
       \/ route = "smart"

\* C23: handing the record to the store leaves the caller's copy as it was
\* computed: after the save step the record has no field the store added,
\* and the response carries it unchanged.
C23_StoreLeavesRecordAlone ==
    SaveAttempted =>
        /\ ~evaluation_doc.has_object_id
        /\ response.evaluation =
               make_evaluation_doc(evaluation_doc.eval_id, req.paper_id, paper, details)

(***************************************************************************)
(* Details, queue and pairs.                                               *)
(***************************************************************************)
\* The two embeddings of the i-th queued question, as the list holds them
\* (counted from 1: the places 2i-1 and 2i).
PairOf(i) ==
    [student |-> IF 2 * i - 1 <= Len(embeddings) THEN embeddings[2 * i - 1] ELSE NoneEmb,
     correct |-> IF 2 * i <= Len(embeddings) THEN embeddings[2 * i] ELSE NoneEmb]

\* The loop over the pairs ended with an exception.
LoopRaised ==
    score_pairs(split_details(paper.questions, req.answers),
                subj_q_indices, embeddings, 1).raised

\* C25: evaluate_student builds one detail per question of the paper, in
\* paper order and numbered from 1; a question is of the MCQ family or it is
\* queued, never both, and the queue is in paper order; the detail of an MCQ
\* is the one the first loop built, and the similarity and the award a
\* queued detail gets from the table are those of its own pair.
C25_OneDetailPerQuestion ==
    (route = "student" /\ pc \in {"embed", "save", "done"} /\ details # <<>>) =>
        /\ Len(details) = Len(paper.questions)
        /\ \A k \in 1..Len(details) :
            /\ details[k].q_index = k
            /\ (paper.questions[k].type \in McqFamily)
                   <=> ~(\E i \in QueuedPositions : subj_q_indices[i] = k)
        /\ \A i, j \in QueuedPositions : i < j => subj_q_indices[i] < subj_q_indices[j]
        /\ pc # "embed" =>
            /\ \A k \in 1..Len(details) :
                   paper.questions[k].type \in McqFamily
                       => details[k] = split_detail(k, paper.questions[k], req.answers)
            /\ \A i \in QueuedPositions :
                   LET d == details[subj_q_indices[i]]
                       own == PairOf(i)
                       cs == cosine_similarity(own.student.vec, own.correct.vec)
                   IN  /\ d.similarity # NoSimilarity
                            => (own.student.some /\ own.correct.some
                                /\ d.similarity = <<sim_round3(cs.sim)>>)
                       /\ (own.student.some /\ own.correct.some /\ ~LoopRaised)
                            => /\ d.similarity = <<sim_round3(cs.sim)>>
                               /\ d.score_awarded = TableRow(d.marks, cs.sim).awarded

\* Two queued questions whose pairs fall in different rows of the table.
C25_Witness ==
    /\ StudentDone
    /\ subj_q_indices = <<1, 2>>
    /\ provider_response.kind = "data"
    /\ provider_response.data = <<Vec85, VecRef, Vec55, VecRef>>
    /\ details[1].score_awarded = 1000
    /\ details[2].score_awarded = 300

(***************************************************************************)
(* The retry helper.                                                       *)
(***************************************************************************)
IsFetchAttempt(a) == a.operation = "fetch_paper"
FetchAttempts == SelectSeq(retry_log, IsFetchAttempt)

\* The attempts of one call of the helper: at most max_retries of them, none
\* after a success or after an error that is no connectivity error, and no
\* delay after such an error.
OneRetryLoop(at, max_retries, running) ==
    /\ Len(at) <= max_retries
    /\ running => Len(at) < max_retries
    /\ \A k \in 1..Len(at) :
        /\ k < Len(at) => at[k].outcome = "transient"
        /\ at[k].outcome \in {"ok", "error"}
               => (k = Len(at) /\ at[k].wait = 0 /\ ~running)

\* C26: mongo_operation_with_retry invokes the operation again only after a
\* transient connectivity error: any other error ends the call at once,
\* without a delay, and reaches the caller; the operation is invoked at
\* least once and at most max_retries times (2 for fetch_paper, 3 for
\* save_evaluation), and only a successful invocation gives a result.
C26_RetryOnlyOnTransient ==
    route = "student" =>
        /\ OneRetryLoop(FetchAttempts, 2, pc = "fetch")
        /\ OneRetryLoop(SaveAttempts, 3, pc = "save")
        /\ (pc # "fetch" /\ ~req.paper.present /\ req.paper_id # NoPaperId /\ mongo_up)
               => FetchAttempts # <<>>
        /\ (paper.present /\ ~req.paper.present)
               => (FetchAttempts # <<>>
                   /\ FetchAttempts[Len(FetchAttempts)].outcome = "ok")
        /\ (FetchAttempts # <<>> /\ pc # "fetch"
                /\ FetchAttempts[Len(FetchAttempts)].outcome # "ok")
               => (Done /\ response.status = 500
                   /\ response.error = "Database connection error")
        /\ evaluations # {}
               => (SaveAttempts # <<>>
                   /\ SaveAttempts[Len(SaveAttempts)].outcome = "ok")

\* The first fetch of the paper raised an error that is no connectivity
\* error: one invocation, no delay, the route answers with the error.
C26_Witness ==
    /\ route = "student"
    /\ Done
    /\ retry_log = <<Attempt("fetch_paper", "error", 0)>>
    /\ waits = <<>>
    /\ response.status = 500

(***************************************************************************)
(* Similarity and award in the record.                                     *)
(***************************************************************************)
\* The row of the similarity table for marks m, selected by the similarity
\* as the record holds it (thousandths), award in hundredths.
RecordedRow(m, recorded) ==
    IF recorded >= 850 THEN [awarded |-> 100 * m, feedback |-> "Excellent"]
    ELSE IF recorded >= 700 THEN [awarded |-> 60 * m, feedback |-> "Partially correct"]
    ELSE IF recorded >= 550
         THEN [awarded |-> 30 * m, feedback |-> "Attempted but insufficient"]
    ELSE [awarded |-> 0, feedback |-> "Incorrect / off-topic"]

\* C27: in every record of evaluate_student a detail with a similarity has
\* the award and the feedback of the table row of that similarity, and a
\* detail scored as MCQ or by the fallback policy has no similarity.
C27_SimilarityMatchesAward ==
    route = "student" =>
        \A doc \in Records : \A k \in 1..Len(doc.details) :
            LET d == doc.details[k]
            IN  /\ d.similarity # NoSimilarity
                    => LET row == RecordedRow(d.marks, d.similarity[1])
                       IN  d.score_awarded = row.awarded /\ d.feedback = row.feedback
                /\ (d.type \in McqFamily \/ d.feedback \in FallbackLabels)
                    => d.similarity = NoSimilarity

(***************************************************************************)
(* Totals within the maximum.                                              *)
(***************************************************************************)
\* C28: in every record of evaluate_student made from a paper whose
\* questions all have marks of 0 or more, the total awarded is at most the
\* total maximum and the percentage is between 0 and 100, also when the
\* paper declares its total_marks.
C28_TotalsWithinMaximum ==
    (StudentDone /\ evaluation_doc.present
        /\ \A i \in 1..Len(paper.questions) : paper.questions[i].marks >= 0)
        => /\ evaluation_doc.total_score <= 100 * evaluation_doc.total_marks
           /\ evaluation_doc.percentage >= 0
           /\ evaluation_doc.percentage <= 10000

(***************************************************************************)
(* Unanswered subjective questions.                                        *)
(***************************************************************************)
\* C29: in evaluate_student a subjective question the student gave no
\* answer to (or an empty one) is awarded 0, whatever the provider returned
\* for the batch.
C29_UnansweredGetsZero ==
    (route = "student" /\ pc \in {"save", "done"}) =>
        \A i \in QueuedPositions :
            details[subj_q_indices[i]].student_answer = ""
                => details[subj_q_indices[i]].score_awarded = 0

(***************************************************************************)
(* Concurrent evaluations.                                                 *)
(***************************************************************************)
\* The record a run builds when it runs alone: a function of its request,
\* of the paper the store holds and of what the provider answered it.
RecordAlone(run) ==
    LET pp == IF run.req.paper.present THEN run.req.paper
              ELSE find_paper(StoredPapers, run.req.paper_id)
        d0 == split_details(pp.questions, run.req.answers)
        subj == collect_subj_indices(pp.questions, 1)
        d == IF subj = <<>> THEN d0
             ELSE score_subjective(d0, subj,
                    get_embeddings_batch(interleave_texts(d0, subj),
                                         run.provider_response))
    IN  make_evaluation_doc(run.evaluation_doc.eval_id, run.req.paper_id, pp, d)

C30_OneSubmissionPerStudent ==
    \A i, j \in DOMAIN submissions :
        i # j => submissions[i].student_id # submissions[j].student_id

====
